---- MODULE Spec2Model ----
(***************************************************************************)
(* Batch submission engine of the multisend script                         *)
(* (scripts/multisend.mjs, second half of src/scripts/                     *)
(* convert_csvjson_to_csv.mjs): duplicate pre-check, checkpoint load,      *)
(* validation and resumption filter, authorization, chunk size search,     *)
(* chunked submission with a checkpoint write after every confirmed chunk. *)
(*                                                                         *)
(* Amounts are counted in display units: parseUnits/parseEther multiply   *)
(* every amount of a run by the same factor 10^decimals, which is divided  *)
(* out of all sums and comparisons.                                        *)
(***************************************************************************)
EXTENDS Integers, Sequences, FiniteSets, TLC

\* ------------------------------------------------------------------ bounds
MaxEntries == 3      \* longest input file
MaxRuns == 2         \* runs of the session in one behaviour
MaxCost == 2         \* largest gas estimate the endpoint returns
MaxBudget == 2       \* largest gas budget
MaxFunds == 4        \* the sender's native balance before the first run
MaxProbe == 7        \* largest working set given to the chunk size search alone
MaxAttempts == 3     \* largest RETRY_MAX_ATTEMPTS
MaxFails == 2        \* most failures of one operation before it succeeds
MaxInterval == 2     \* largest RATE_LIMIT_INTERVAL_MS
MaxGap == 1          \* longest time a call or a backoff takes
MaxOps == 2          \* callWithRetry calls of the process
MaxSends == 2        \* times Send is pressed in the front-end
MaxBatch == 2        \* longest recipients / amounts array of a contract call
MaxAmount == 2       \* largest amount of one transfer of a contract call
MaxBase == 10        \* largest RETRY_BASE_MS
MaxChunks == 2       \* most chunks of one of two runs sharing a checkpoint file

\* ------------------------------------------------------- program constants
ProbeCap == 512      \* Math.min(recipients.length, 512)

\* ------------------------------------------------------------ basic helpers
Min(a, b) == IF a < b THEN a ELSE b
Max(a, b) == IF a > b THEN a ELSE b

RECURSIVE SumSeq(_)
\* a.reduce((x, y) => x + y, 0n)
SumSeq(s) == IF s = <<>> THEN 0 ELSE Head(s) + SumSeq(Tail(s))


\* array.slice(from, to) with 0-based from (inclusive) and to (exclusive)
Slice(s, from, to) ==
  LET hi == Min(to, Len(s)) IN
  IF from >= hi THEN <<>> ELSE [k \in 1..(hi - from) |-> s[from + k]]

\* ------------------------------------------------------- addresses, amounts
\* "a1"/"A1" are the lower-case and the checksummed spelling of one account.
NoAddr == "invalid"

\* ethers.getAddress: the canonical (checksummed) form, or a thrown error
getAddress(a) ==
  CASE a \in {"a1", "A1"} -> "A1"
    [] a = "a2" -> "A2"
    [] a = "a3" -> "A3"
    [] a = "a4" -> "A4"
    [] OTHER -> NoAddr

\* ethers.isAddress
isAddress(a) == getAddress(a) # NoAddr

\* ethers.parseUnits / parseEther of a normalised amount string
parseUnits(s) ==
  CASE s = "0" -> 0
    [] s = "1" -> 1
    [] s = "1.0" -> 1
    [] s = "2" -> 2

\* `${address}|${amountStr}`: injective on hex addresses and decimal amounts
makeKey(address, amountStr) == <<address, amountStr>>

\* ------------------------------------------------------------------- chunk
RECURSIVE chunkFrom_overlap(_, _, _)
\* Variant: the slice ends one element late, so chunks overlap.
chunkFrom_overlap(array, size, i) ==
  IF i >= Len(array) THEN <<>>
  ELSE <<Slice(array, i, i + size + 1)>> \o chunkFrom_overlap(array, size, i + size)

RECURSIVE chunkFrom(_, _, _)
\* for (let i = 0; i < array.length; i += size) chunks.push(array.slice(i, i + size))
chunkFrom(array, size, i) ==
  IF i >= Len(array) THEN <<>>
  ELSE <<Slice(array, i, i + size)>> \o chunkFrom(array, size, i + size)

\* function chunk(array, size)
chunk(array, size) == chunkFrom(array, size, 0)

RECURSIVE Flatten(_)
Flatten(ss) == IF ss = <<>> THEN <<>> ELSE Head(ss) \o Flatten(Tail(ss))

\* ------------------------------------------------------- chunk size search
\* est[n] is the outcome of estimateForCount(n): 0 stands for null (the
\* estimate failed after retries), a positive number is the gas estimate.
\* The result carries the search state and the lengths estimated, in order.

RECURSIVE DoublingFrom_nullSafe(_, _, _, _, _, _, _)
\* Variant: a failed estimate is not tested for (if (est >= gasBudget) ...),
\* so a null estimate counts as safe.
DoublingFrom_nullSafe(est, gasBudget, test, low, high, safe, calls) ==
  IF test > high
    THEN [low |-> low, high |-> high, safe |-> safe, calls |-> calls]
    ELSE LET e == est[test]
             c == Append(calls, test)
         IN IF e >= gasBudget
              THEN [low |-> low, high |-> test, safe |-> safe, calls |-> c]
              ELSE IF test = high
                THEN [low |-> test, high |-> high, safe |-> test, calls |-> c]
                ELSE DoublingFrom_nullSafe(est, gasBudget, test * 2, test, high, test, c)

RECURSIVE DoublingFrom_linear(_, _, _, _, _, _, _)
\* Variant: test is increased by one (test += 1).
DoublingFrom_linear(est, gasBudget, test, low, high, safe, calls) ==
  IF test > high
    THEN [low |-> low, high |-> high, safe |-> safe, calls |-> calls]
    ELSE LET e == est[test]
             c == Append(calls, test)
         IN IF e = 0 \/ e >= gasBudget
              THEN [low |-> low, high |-> test, safe |-> safe, calls |-> c]
              ELSE IF test = high
                THEN [low |-> test, high |-> high, safe |-> test, calls |-> c]
                ELSE DoublingFrom_linear(est, gasBudget, test + 1, test, high, test, c)

RECURSIVE DoublingFrom(_, _, _, _, _, _, _)
\* for (let test = 1; test <= high; test *= 2) { ... }
DoublingFrom(est, gasBudget, test, low, high, safe, calls) ==
  IF test > high
    THEN [low |-> low, high |-> high, safe |-> safe, calls |-> calls]
    ELSE LET e == est[test]
             c == Append(calls, test)
         IN IF e = 0 \/ e >= gasBudget
              THEN [low |-> low, high |-> test, safe |-> safe, calls |-> c]
              ELSE IF test = high
                THEN [low |-> test, high |-> high, safe |-> test, calls |-> c]
                ELSE DoublingFrom(est, gasBudget, test * 2, test, high, test, c)

RECURSIVE BinarySearch(_, _, _, _, _, _)
\* while (low + 1 < high) { ... }
BinarySearch(est, gasBudget, low, high, safe, calls) ==
  IF low + 1 < high
    THEN LET mid == (low + high) \div 2
             e == est[mid]
             c == Append(calls, mid)
         IN IF e # 0 /\ e < gasBudget
              THEN BinarySearch(est, gasBudget, mid, high, mid, c)
              ELSE BinarySearch(est, gasBudget, low, mid, safe, c)
    ELSE [safe |-> safe, calls |-> calls]

\* Variant: safe starts at 0 and the result is not clamped to 1.
ChunkSearch_zeroStart(est, gasBudget, n) ==
  LET d == DoublingFrom(est, gasBudget, 1, 1, Min(n, ProbeCap), 0, <<>>)
      b == BinarySearch(est, gasBudget, d.low, d.high, d.safe, d.calls)
  IN [chunkSize |-> b.safe, calls |-> b.calls]

\* the search of main(): chunkSize = Math.max(1, safe)
ChunkSearch(est, gasBudget, n) ==
  LET d == DoublingFrom(est, gasBudget, 1, 1, Min(n, ProbeCap), 1, <<>>)
      b == BinarySearch(est, gasBudget, d.low, d.high, d.safe, d.calls)
  IN [chunkSize |-> Max(1, b.safe), calls |-> b.calls]

\* ------------------------------------------------------------------ state
VARIABLES
  input,            \* the entries of the input file, in file order
  isNative,         \* NATIVE / --native (part of the session identity)
  decimalsOverride, \* DECIMALS is set
  fileExists,       \* fs.existsSync(CHECKPOINT_FILE)
  fileKeys,         \* sentKeys stored in the file under this session
  paid,             \* chain: transfers received, per canonical recipient
  allowance,        \* chain: token allowance of the sender to the contract
  balance,          \* chain: native balance of the sender
  runs,             \* runs of the session started so far
  everDisabled,     \* some run so far had checkpoints disabled
  pc,               \* position of the running main()
  error,            \* why main() threw
  DISABLE_CHECKPOINTS,
  sentKeys,         \* main(): the in-memory Set
  loadedKeys,       \* sentKeys as loaded when the run started
  validEntries,     \* main(): the working set
  gasBudget,
  chunkSize,
  i,                \* main(): index of the chunk in the send loop (from 1)
  trace,            \* the calls this run has completed, in order
  pN, pEst, pBudget, pResult,  \* the chunk size search on its own
  pFront,           \* what the front-end's estimateChunkSize returns for them
  \* callWithRetry and limitPace on their own
  RETRY_MAX_ATTEMPTS,
  RATE_LIMIT_INTERVAL_MS,
  RETRY_BASE_MS,
  RETRY_MAX_MS,
  fails,            \* the errors the operation in hand throws before it succeeds
  attempt,          \* callWithRetry: failures caught so far
  delay,            \* callWithRetry: delay
  waitMs,           \* callWithRetry: the last waitMs computed
  invoked,          \* invocations of fn() by the callWithRetry in hand
  rpc,              \* position of callWithRetry
  outcome,          \* what the last callWithRetry returned or threw
  now,              \* Date.now()
  lastCallAt,       \* limitPace: lastCallAt
  starts,           \* start times of the last two invocations of the process
  paced,            \* the last limitPace slept
  ops,              \* callWithRetry calls made so far
  \* the web front-end (App.tsx)
  rows,             \* the rows of the uploaded CSV
  decimals,         \* the token's decimals, "null" until fetched
  sending,
  status,
  uiPc,             \* position of onSend
  uiChunkSize,      \* onSend: cSize
  uiI,              \* onSend: index of the chunk in the send loop (from 1)
  uiTrace,          \* the calls onSend has completed, in order
  sends,            \* times Send was pressed
  \* the BatchSender contract, one transaction at a time
  tx,               \* the call: function, token, recipients, amounts, msg.value
  chain,            \* balances of the asset the call moves, and the allowance
  snapshot,         \* chain as it was when the transaction started
  got,              \* what the transaction's transfers have delivered, per account
  ci,               \* index in the transfer loop (from 1)
  cpc,              \* position of the transaction
  \* two runs of different sessions on one checkpoint file
  sfile,            \* the file: the sentKeys stored per session, and who wrote it last
  procs             \* per process: position, checkpoints, sentKeys, chunk index

runVars == <<pc, error, DISABLE_CHECKPOINTS, sentKeys, loadedKeys, validEntries,
             gasBudget, chunkSize, i, trace>>
chainVars == <<paid, allowance, balance>>
fileVars == <<fileExists, fileKeys>>
cfgVars == <<input, isNative, decimalsOverride>>
probeVars == <<pN, pEst, pBudget, pResult, pFront>>
retryVars == <<RETRY_MAX_ATTEMPTS, RATE_LIMIT_INTERVAL_MS, RETRY_BASE_MS,
               RETRY_MAX_MS, fails, attempt, delay, waitMs, invoked,
               rpc, outcome, now, lastCallAt, starts, paced, ops>>
frontVars == <<rows, decimals, sending, status, uiPc, uiChunkSize, uiI, uiTrace,
               sends>>
contractVars == <<tx, chain, snapshot, got, ci, cpc>>
sharedVars == <<sfile, procs>>
unitVars == <<probeVars, retryVars, frontVars, contractVars, sharedVars>>
histVars == <<runs, everDisabled>>
scriptVars == <<cfgVars, fileVars, histVars, runVars>>
vars == <<cfgVars, fileVars, chainVars, histVars, runVars, unitVars>>

\* ------------------------------------------------------------------ inputs
\* The input files: the non-empty selections of at most MaxEntries lines of
\* this file, in its order. Lines 1 and 6 name the same account in two
\* spellings, line 2 has no valid address, line 4 a zero amount.
EntryPool ==
  << [address |-> "a1", amountStr |-> "1"],
     [address |-> "zz", amountStr |-> "1"],
     [address |-> "a2", amountStr |-> "2"],
     [address |-> "a4", amountStr |-> "0"],
     [address |-> "a3", amountStr |-> "1"],
     [address |-> "A1", amountStr |-> "2"] >>

RECURSIVE Select(_, _)
Select(lines, pick) ==
  IF lines = <<>> THEN <<>>
  ELSE IF Len(lines) \in pick
    THEN Select(SubSeq(lines, 1, Len(lines) - 1), pick) \o <<lines[Len(lines)]>>
    ELSE Select(SubSeq(lines, 1, Len(lines) - 1), pick)

Inputs ==
  { Select(EntryPool, pick) : pick \in
      { p \in SUBSET (1..Len(EntryPool)) : Cardinality(p) \in 1..MaxEntries } }

Canonical == {"A1", "A2", "A3", "A4"}

RemoteOps == {"decimals", "allowance", "approve", "approveWait", "getBalance",
              "getBlock", "estimate", "submit", "wait"}

\* a completed call: what, for which chunk or prefix length, and whether it
\* succeeded within its retries
Ev(op, arg, ok) == [op |-> op, arg |-> arg, ok |-> ok]

Running == {"decimals", "allowance", "approve", "approveWait", "getBalance",
            "getBlock", "probe", "submit", "wait", "mined"}
Ended == {"idle", "done", "failed", "crashed"}

\* ------------------------------------------------------- steps of main()
\* Variant: the pre-check compares the addresses as written.
duplicateAddresses_asWritten(entries) ==
  { entries[k].address : k \in
      { k \in 1..Len(entries) :
          \E j \in 1..(k - 1) : entries[j].address = entries[k].address } }

\* Pre-check: the canonical addresses that occur more than once in the input
duplicateAddresses(entries) ==
  { getAddress(entries[k].address) : k \in
      { k \in 1..Len(entries) :
          /\ isAddress(entries[k].address)
          /\ \E j \in 1..(k - 1) :
               /\ isAddress(entries[j].address)
               /\ getAddress(entries[j].address) = getAddress(entries[k].address) } }

\* Variant: the amount is not looked at.
Keep_anyAmount(e, disabled, sent) ==
  /\ isAddress(e.address)
  /\ (disabled \/ makeKey(e.address, e.amountStr) \notin sent)

\* Variant: an entry is filtered out when its address has a confirmed key,
\* whatever the amount.
Keep_byAddress(e, disabled, sent) ==
  /\ isAddress(e.address)
  /\ parseUnits(e.amountStr) > 0
  /\ (disabled \/ e.address \notin {key[1] : key \in sent})

\* the validation loop: invalid addresses and zero amounts are skipped, and
\* so are the entries whose key is in sentKeys unless checkpoints are disabled
Keep(e, disabled, sent) ==
  /\ isAddress(e.address)
  /\ parseUnits(e.amountStr) > 0
  /\ (disabled \/ makeKey(e.address, e.amountStr) \notin sent)

RECURSIVE validate(_, _, _)
validate(entries, disabled, sent) ==
  IF entries = <<>> THEN <<>>
  ELSE LET e == Head(entries)
           rest == validate(Tail(entries), disabled, sent)
       IN IF Keep(e, disabled, sent)
            THEN <<[address |-> e.address, amountStr |-> e.amountStr,
                    amt |-> parseUnits(e.amountStr)]>> \o rest
            ELSE rest

amountsOf(es) == [k \in 1..Len(es) |-> es[k].amt]
recipientsOf(es) == [k \in 1..Len(es) |-> es[k].address]
keysOf(es) == {makeKey(es[k].address, es[k].amountStr) : k \in 1..Len(es)}
total == SumSeq(amountsOf(validEntries))

entryChunks == chunk(validEntries, chunkSize)
recipientChunks == chunk(recipientsOf(validEntries), chunkSize)
amountChunks == chunk(amountsOf(validEntries), chunkSize)

\* the summary log after the validation loop:
\* `already sent skipped: ${sentKeys.size}`
alreadySentSkipped == Cardinality(loadedKeys)

\* The run throws: main().catch logs and exits
Fail(why) == /\ pc' = "failed" /\ error' = why

\* After the decimals are known: validation, filter, and the first query
AfterDecimals(sent, disabled, tr) ==
  LET v == validate(input, disabled, sent) IN
  /\ validEntries' = v
  /\ trace' = tr
  /\ IF v = <<>> THEN Fail("noRemaining")
     ELSE /\ pc' = (IF isNative THEN "getBalance" ELSE "allowance")
          /\ error' = "none"

\* Variant: the file is read whenever it exists.
readsCheckpoint_always(disabled, exists) == exists

\* if (!DISABLE_CHECKPOINTS && fs.existsSync(CHECKPOINT_FILE))
readsCheckpoint(disabled, exists) == ~disabled /\ exists

\* main() from its start to its first remote call
StartRun ==
  /\ pc \in Ended
  /\ runs < MaxRuns
  /\ runs' = runs + 1
  /\ \E disabled \in BOOLEAN, readOk \in BOOLEAN :
       LET reads == readsCheckpoint(disabled, fileExists)
           sent == IF reads /\ readOk THEN fileKeys ELSE {}
           tr == IF reads THEN <<Ev("read", 0, readOk)>> ELSE <<>>
       IN
       /\ (readOk \/ reads)
       /\ DISABLE_CHECKPOINTS' = disabled
       /\ everDisabled' = (everDisabled \/ disabled)
       /\ i' = 1
       /\ chunkSize' = 1
       /\ gasBudget' = 0
       /\ IF duplicateAddresses(input) # {}
            THEN /\ Fail("duplicate")
                 /\ sentKeys' = {} /\ loadedKeys' = {}
                 /\ validEntries' = <<>> /\ trace' = <<>>
            ELSE /\ sentKeys' = sent
                 /\ loadedKeys' = sent
                 /\ IF ~isNative /\ ~decimalsOverride
                      THEN /\ pc' = "decimals" /\ error' = "none"
                           /\ validEntries' = <<>> /\ trace' = tr
                      ELSE AfterDecimals(sent, disabled, tr)
  /\ UNCHANGED <<cfgVars, fileVars, chainVars, unitVars>>

\* token.decimals() returned or failed after retries (then 18 is assumed)
Decimals ==
  /\ pc = "decimals"
  /\ \E ok \in BOOLEAN :
       AfterDecimals(sentKeys, DISABLE_CHECKPOINTS,
                     Append(trace, Ev("decimals", 0, ok)))
  /\ UNCHANGED <<cfgVars, fileVars, chainVars, histVars, unitVars,
                 DISABLE_CHECKPOINTS, sentKeys, loadedKeys, gasBudget, chunkSize, i>>

\* a remote call failed after its retries, outside the send loop
RemoteFails(at, op) ==
  /\ pc = at
  /\ trace' = Append(trace, Ev(op, 0, FALSE))
  /\ Fail("remote")
  /\ UNCHANGED <<cfgVars, fileVars, chainVars, histVars, unitVars,
                 DISABLE_CHECKPOINTS, sentKeys, loadedKeys, validEntries,
                 gasBudget, chunkSize, i>>

\* Variant: approve is sent whatever the allowance is.
Allowance_always ==
  /\ pc = "allowance"
  /\ trace' = Append(trace, Ev("allowance", allowance, TRUE))
  /\ pc' = "approve"
  /\ UNCHANGED <<cfgVars, fileVars, chainVars, histVars, unitVars, error,
                 DISABLE_CHECKPOINTS, sentKeys, loadedKeys, validEntries,
                 gasBudget, chunkSize, i>>

\* Variant: approve is never sent.
Allowance_skipApprove ==
  /\ pc = "allowance"
  /\ trace' = Append(trace, Ev("allowance", allowance, TRUE))
  /\ pc' = "getBlock"
  /\ UNCHANGED <<cfgVars, fileVars, chainVars, histVars, unitVars, error,
                 DISABLE_CHECKPOINTS, sentKeys, loadedKeys, validEntries,
                 gasBudget, chunkSize, i>>

\* token.allowance(wallet, batch) returned
Allowance ==
  /\ pc = "allowance"
  /\ trace' = Append(trace, Ev("allowance", allowance, TRUE))
  /\ pc' = (IF allowance < total THEN "approve" ELSE "getBlock")
  /\ UNCHANGED <<cfgVars, fileVars, chainVars, histVars, unitVars, error,
                 DISABLE_CHECKPOINTS, sentKeys, loadedKeys, validEntries,
                 gasBudget, chunkSize, i>>

\* Variant: the confirmation of the approve transaction is not awaited.
Approve_noWait ==
  /\ pc = "approve"
  /\ trace' = Append(trace, Ev("approve", total, TRUE))
  /\ pc' = "getBlock"
  /\ UNCHANGED <<cfgVars, fileVars, chainVars, histVars, unitVars, error,
                 DISABLE_CHECKPOINTS, sentKeys, loadedKeys, validEntries,
                 gasBudget, chunkSize, i>>

\* token.approve(batch, total) was submitted
Approve ==
  /\ pc = "approve"
  /\ trace' = Append(trace, Ev("approve", total, TRUE))
  /\ pc' = "approveWait"
  /\ UNCHANGED <<cfgVars, fileVars, chainVars, histVars, unitVars, error,
                 DISABLE_CHECKPOINTS, sentKeys, loadedKeys, validEntries,
                 gasBudget, chunkSize, i>>

\* the approve transaction confirmed
ApproveWait ==
  /\ pc = "approveWait"
  /\ trace' = Append(trace, Ev("approveWait", 0, TRUE))
  /\ allowance' = total
  /\ pc' = "getBlock"
  /\ UNCHANGED <<cfgVars, fileVars, paid, balance, histVars, unitVars, error,
                 DISABLE_CHECKPOINTS, sentKeys, loadedKeys, validEntries,
                 gasBudget, chunkSize, i>>

\* Variant: the balance is logged and not compared with the total.
GetBalance_noCheck ==
  /\ pc = "getBalance"
  /\ trace' = Append(trace, Ev("getBalance", balance, TRUE))
  /\ pc' = "getBlock" /\ error' = error
  /\ UNCHANGED <<cfgVars, fileVars, chainVars, histVars, unitVars,
                 DISABLE_CHECKPOINTS, sentKeys, loadedKeys, validEntries,
                 gasBudget, chunkSize, i>>

\* provider.getBalance(wallet) returned
GetBalance ==
  /\ pc = "getBalance"
  /\ trace' = Append(trace, Ev("getBalance", balance, TRUE))
  /\ IF balance < total THEN Fail("insufficient")
     ELSE pc' = "getBlock" /\ error' = error
  /\ UNCHANGED <<cfgVars, fileVars, chainVars, histVars, unitVars,
                 DISABLE_CHECKPOINTS, sentKeys, loadedKeys, validEntries,
                 gasBudget, chunkSize, i>>

\* provider.getBlock('latest') returned: gasBudget = floor(gasLimit * fraction),
\* here always the largest budget (the search alone is run against every budget)
GetBlock ==
  /\ pc = "getBlock"
  /\ trace' = Append(trace, Ev("getBlock", 0, TRUE))
  /\ gasBudget' = MaxBudget
  /\ pc' = "probe"
  /\ UNCHANGED <<cfgVars, fileVars, chainVars, histVars, unitVars, error,
                 DISABLE_CHECKPOINTS, sentKeys, loadedKeys, validEntries,
                 chunkSize, i>>

\* the events of the estimates the search issued
estimateEvents(est, calls) ==
  [k \in 1..Len(calls) |-> Ev("estimate", calls[k], est[calls[k]] # 0)]

\* the chunk size search, against the estimates the endpoint gives
Probe ==
  /\ pc = "probe"
  /\ \E est \in [1..Len(validEntries) -> 0..MaxCost] :
       LET r == ChunkSearch(est, gasBudget, Len(validEntries)) IN
       /\ chunkSize' = r.chunkSize
       /\ trace' = trace \o estimateEvents(est, r.calls)
  /\ i' = 1
  /\ pc' = "submit"
  /\ UNCHANGED <<cfgVars, fileVars, chainVars, histVars, unitVars, error,
                 DISABLE_CHECKPOINTS, sentKeys, loadedKeys, validEntries, gasBudget>>

\* ------------------------------------------------------------ the send loop
\* the contract's preconditions on the chunk: allowance >= total (ERC20),
\* msg.value = sum, which the sender must own (native)
CanExecute(sum) == IF isNative THEN balance >= sum ELSE allowance >= sum

\* Variant: only the chunk's own keys are written.
updatedKeys_onlyNew(sent, newlySent) == newlySent

\* const updated = new Set(sentKeys); newlySent.forEach(k => updated.add(k))
updatedKeys(sent, newlySent) == sent \cup newlySent

\* Variant: the in-memory set is updated only when the write succeeded.
nextSentKeys_onSuccess(sent, newlySent, writeOk) ==
  IF writeOk THEN sent \cup newlySent ELSE sent

\* newlySent.forEach(k => sentKeys.add(k)), whether or not the write succeeded
nextSentKeys(sent, newlySent, writeOk) == sent \cup newlySent

\* Variant: the loop ends one chunk early.
afterChunk_early(k, n) == IF k + 1 >= n THEN "done" ELSE "submit"

\* the position after chunk k of n: the next chunk, or the end of main()
afterChunk(k, n) == IF k >= n THEN "done" ELSE "submit"

\* Variant: the value attached is the total of the whole working set.
chunkCall_totalValue(k) ==
  LET a == amountsOf(entryChunks[k]) IN
  [recipients |-> recipientsOf(entryChunks[k]), amounts |-> a,
   value |-> IF isNative THEN total ELSE 0]

\* the arguments of the submission of chunk k: r, a and, in native mode,
\* { value: sum }
chunkCall(k) ==
  LET a == amountsOf(entryChunks[k]) IN
  [recipients |-> recipientsOf(entryChunks[k]), amounts |-> a,
   value |-> IF isNative THEN SumSeq(a) ELSE 0]

\* the arguments of estimateForCount(count): the first count recipients and
\* amounts and, in native mode, { value: val }
estimateCall(count) ==
  LET a == Slice(amountsOf(validEntries), 0, count) IN
  [recipients |-> Slice(recipientsOf(validEntries), 0, count), amounts |-> a,
   value |-> IF isNative THEN SumSeq(a) ELSE 0]

\* batchTransferNative: the require statements on the arguments
nativeRequires(call) ==
  /\ Len(call.recipients) = Len(call.amounts)
  /\ Len(call.recipients) > 0
  /\ call.value = SumSeq(call.amounts)

\* Variant: the chunk's keys are persisted when the chunk is submitted, before
\* its confirmation (persist-then-confirm).
Submit_persistFirst ==
  /\ pc = "submit"
  /\ CanExecute(SumSeq(amountsOf(entryChunks[i])))
  /\ trace' = trace \o <<Ev("write", i, TRUE), Ev("submit", i, TRUE)>>
  /\ fileKeys' = updatedKeys(sentKeys, keysOf(entryChunks[i]))
  /\ fileExists' = TRUE
  /\ pc' = "wait"
  /\ UNCHANGED <<cfgVars, chainVars, histVars, unitVars, error,
                 DISABLE_CHECKPOINTS, sentKeys, loadedKeys, validEntries,
                 gasBudget, chunkSize, i>>

\* batch.batchTransferNative / batchTransferERC20 returned a transaction
Submit ==
  /\ pc = "submit"
  /\ CanExecute(SumSeq(amountsOf(entryChunks[i])))
  /\ isNative => nativeRequires(chunkCall(i))
  /\ trace' = Append(trace, Ev("submit", i, TRUE))
  /\ pc' = "wait"
  /\ UNCHANGED <<cfgVars, fileVars, chainVars, histVars, unitVars, error,
                 DISABLE_CHECKPOINTS, sentKeys, loadedKeys, validEntries,
                 gasBudget, chunkSize, i>>

\* the submission failed after its retries: catch, log, rethrow
SubmitFails ==
  /\ pc = "submit"
  /\ trace' = Append(trace, Ev("submit", i, FALSE))
  /\ Fail("chunk")
  /\ UNCHANGED <<cfgVars, fileVars, chainVars, histVars, unitVars,
                 DISABLE_CHECKPOINTS, sentKeys, loadedKeys, validEntries,
                 gasBudget, chunkSize, i>>

\* times chunk c pays the canonical recipient
Pays(c, canon) ==
  Cardinality({k \in 1..Len(c) : getAddress(c[k].address) = canon})

\* the chain executes the chunk's transaction: every recipient gets its amount
Mine ==
  /\ pc = "wait"
  /\ LET c == entryChunks[i]
         sum == SumSeq(amountsOf(c))
     IN /\ paid' = [a \in Canonical |-> paid[a] + Pays(c, a)]
        /\ allowance' = (IF isNative THEN allowance ELSE allowance - sum)
        /\ balance' = (IF isNative THEN balance - sum ELSE balance)
  /\ pc' = "mined"
  /\ UNCHANGED <<cfgVars, fileVars, histVars, unitVars, error,
                 DISABLE_CHECKPOINTS, sentKeys, loadedKeys, validEntries,
                 gasBudget, chunkSize, i, trace>>

\* Variant: when the wait has failed the chunk is submitted again.
WaitFails_resubmit ==
  /\ pc \in {"wait", "mined"}
  /\ trace' = Append(trace, Ev("wait", i, FALSE))
  /\ pc' = "submit"
  /\ UNCHANGED <<cfgVars, fileVars, chainVars, histVars, unitVars, error,
                 DISABLE_CHECKPOINTS, sentKeys, loadedKeys, validEntries,
                 gasBudget, chunkSize, i>>

\* tx.wait() failed after its retries: catch, log, rethrow
WaitFails ==
  /\ pc \in {"wait", "mined"}
  /\ trace' = Append(trace, Ev("wait", i, FALSE))
  /\ Fail("chunk")
  /\ UNCHANGED <<cfgVars, fileVars, chainVars, histVars, unitVars,
                 DISABLE_CHECKPOINTS, sentKeys, loadedKeys, validEntries,
                 gasBudget, chunkSize, i>>

\* Variant: a failed checkpoint write is rethrown by the chunk's catch block.
Confirm_writeFatal ==
  /\ pc = "mined"
  /\ LET newlySent == keysOf(entryChunks[i])
         waited == Append(trace, Ev("wait", i, TRUE))
     IN IF DISABLE_CHECKPOINTS
          THEN /\ trace' = waited
               /\ i' = i + 1
               /\ pc' = afterChunk(i, Len(entryChunks))
               /\ UNCHANGED <<fileVars, sentKeys, error>>
          ELSE \E writeOk \in BOOLEAN :
                 /\ trace' = Append(waited, Ev("write", i, writeOk))
                 /\ IF writeOk
                      THEN /\ fileKeys' = updatedKeys(sentKeys, newlySent)
                           /\ fileExists' = TRUE
                           /\ sentKeys' = nextSentKeys(sentKeys, newlySent, writeOk)
                           /\ i' = i + 1
                           /\ pc' = afterChunk(i, Len(entryChunks))
                           /\ error' = error
                      ELSE /\ Fail("chunk")
                           /\ UNCHANGED <<fileVars, sentKeys, i>>
  /\ UNCHANGED <<cfgVars, chainVars, histVars, unitVars,
                 DISABLE_CHECKPOINTS, loadedKeys, validEntries, gasBudget, chunkSize>>

\* tx.wait() returned the receipt: mark the entries as sent, write the
\* checkpoint file (a failed write is only logged), go on to the next chunk
Confirm ==
  /\ pc = "mined"
  /\ LET newlySent == keysOf(entryChunks[i])
         waited == Append(trace, Ev("wait", i, TRUE))
     IN IF DISABLE_CHECKPOINTS
          THEN /\ trace' = waited
               /\ UNCHANGED <<fileVars, sentKeys>>
          ELSE \E writeOk \in BOOLEAN :
                 /\ trace' = Append(waited, Ev("write", i, writeOk))
                 /\ IF writeOk
                      THEN /\ fileKeys' = updatedKeys(sentKeys, newlySent)
                           /\ fileExists' = TRUE
                      ELSE UNCHANGED fileVars
                 /\ sentKeys' = nextSentKeys(sentKeys, newlySent, writeOk)
  /\ i' = i + 1
  /\ pc' = afterChunk(i, Len(entryChunks))
  /\ UNCHANGED <<cfgVars, chainVars, histVars, unitVars, error,
                 DISABLE_CHECKPOINTS, loadedKeys, validEntries, gasBudget, chunkSize>>

\* the process dies, at any point of a run: its memory is gone, the file and
\* the chain stay as they are
Crash ==
  /\ pc \in Running
  /\ pc' = "crashed"
  /\ error' = "none"
  /\ DISABLE_CHECKPOINTS' = FALSE
  /\ sentKeys' = {} /\ loadedKeys' = {}
  /\ validEntries' = <<>>
  /\ gasBudget' = 0 /\ chunkSize' = 1 /\ i' = 1
  /\ trace' = <<>>
  /\ UNCHANGED <<cfgVars, fileVars, chainVars, histVars, unitVars>>

\* ------------------------------------------------------------ specification
NoResult == [chunkSize |-> 0, calls |-> <<>>]
NoOutcome == [threw |-> FALSE, value |-> "none"]

\* the chunk size search on its own is not in use
ProbeOff ==
  pN = 0 /\ pEst = <<>> /\ pBudget = 0 /\ pResult = NoResult /\ pFront = NoResult

\* the front-end is not in use
FrontOff ==
  /\ rows = <<>>
  /\ decimals = "null"
  /\ sending = FALSE
  /\ status = ""
  /\ uiPc = "idle"
  /\ uiChunkSize = 0
  /\ uiI = 1
  /\ uiTrace = <<>>
  /\ sends = 0

NoTx == [fn |-> "none"]
NoChain == [bal |-> <<>>, allowance |-> 0]

\* no transaction of the contract is looked at
ContractOff ==
  /\ tx = NoTx
  /\ chain = NoChain
  /\ snapshot = NoChain
  /\ got = <<>>
  /\ ci = 1
  /\ cpc = "none"

\* no second process is looked at
SharedOff == sfile = [content |-> <<>>, writer |-> "none"] /\ procs = <<>>

\* callWithRetry on its own is not in use
RetryOff ==
  /\ RETRY_MAX_ATTEMPTS = 0
  /\ RATE_LIMIT_INTERVAL_MS = 0
  /\ RETRY_BASE_MS = 0
  /\ RETRY_MAX_MS = 0
  /\ fails = <<>>
  /\ attempt = 0
  /\ delay = 0
  /\ waitMs = 0
  /\ invoked = 0
  /\ rpc = "off"
  /\ outcome = NoOutcome
  /\ now = 0
  /\ lastCallAt = 0
  /\ starts = <<>>
  /\ paced = 0
  /\ ops = 0

Init ==
  /\ SharedOff
  /\ input \in Inputs
  /\ isNative \in BOOLEAN
  /\ decimalsOverride \in BOOLEAN
  /\ (isNative => ~decimalsOverride)
  /\ fileExists = FALSE
  /\ fileKeys = {}
  /\ paid = [a \in Canonical |-> 0]
  /\ allowance = 0
  /\ balance = MaxFunds
  /\ runs = 0
  /\ everDisabled = FALSE
  /\ pc = "idle"
  /\ error = "none"
  /\ DISABLE_CHECKPOINTS = FALSE
  /\ sentKeys = {}
  /\ loadedKeys = {}
  /\ validEntries = <<>>
  /\ gasBudget = 0
  /\ chunkSize = 1
  /\ i = 1
  /\ trace = <<>>
  /\ ProbeOff
  /\ RetryOff
  /\ FrontOff
  /\ ContractOff

Next ==
  \/ StartRun
  \/ Decimals
  \/ Allowance
  \/ RemoteFails("allowance", "allowance")
  \/ Approve
  \/ RemoteFails("approve", "approve")
  \/ ApproveWait
  \/ RemoteFails("approveWait", "approveWait")
  \/ GetBalance
  \/ RemoteFails("getBalance", "getBalance")
  \/ GetBlock
  \/ RemoteFails("getBlock", "getBlock")
  \/ Probe
  \/ Submit
  \/ SubmitFails
  \/ Mine
  \/ WaitFails
  \/ Confirm
  \/ Crash

Spec == Init /\ [][Next]_vars

\* ------------------------------------- runs whose remote calls all succeed
\* Every submission, confirmation wait and query returns within its retries
\* and the process is not killed. token.decimals() and the estimates may still
\* fail, which main() absorbs, and so may the checkpoint write.
NextOk ==
  \/ StartRun
  \/ Decimals
  \/ Allowance
  \/ Approve
  \/ ApproveWait
  \/ GetBalance
  \/ GetBlock
  \/ Probe
  \/ Submit
  \/ Mine
  \/ Confirm

\* the continuation of main() after an await that has settled
RunStep ==
  \/ Decimals
  \/ Allowance
  \/ Approve
  \/ ApproveWait
  \/ GetBalance
  \/ GetBlock
  \/ Probe
  \/ Submit
  \/ Mine
  \/ Confirm

\* main() is resumed whenever the call it awaits has settled
SpecOk == Init /\ [][NextOk]_vars /\ WF_vars(RunStep)

\* ------------------------------------------- the chunk size search alone
\* The search applied to every working-set size, estimator and budget.
InitProbe ==
  /\ SharedOff
  /\ input = <<EntryPool[1]>>
  /\ isNative = TRUE
  /\ decimalsOverride = FALSE
  /\ fileExists = FALSE
  /\ fileKeys = {}
  /\ paid = [a \in Canonical |-> 0]
  /\ allowance = 0
  /\ balance = 0
  /\ runs = 0
  /\ everDisabled = FALSE
  /\ pc = "idle"
  /\ error = "none"
  /\ DISABLE_CHECKPOINTS = FALSE
  /\ sentKeys = {}
  /\ loadedKeys = {}
  /\ validEntries = <<>>
  /\ gasBudget = 0
  /\ chunkSize = 1
  /\ i = 1
  /\ trace = <<>>
  /\ pN \in 1..MaxProbe
  /\ pEst \in [1..pN -> 0..MaxCost]
  /\ pBudget \in 1..MaxBudget
  /\ pResult = NoResult
  /\ pFront = NoResult
  /\ RetryOff
  /\ FrontOff
  /\ ContractOff

RunSearch ==
  /\ pResult = NoResult
  /\ pResult' = ChunkSearch(pEst, pBudget, pN)
  /\ UNCHANGED <<sharedVars, cfgVars, fileVars, chainVars, histVars, runVars,
                 pN, pEst, pBudget, pFront, retryVars, frontVars, contractVars>>

\* ------------------------------------ main() up to its first remote query
\* Keys the checkpoint file may hold for the session: the session is named by
\* the path of the input file, whose lines may have been edited since.
ConfirmedPool ==
  { makeKey("a1", "1"), makeKey("a1", "2"), makeKey("A1", "2"),
    makeKey("a2", "2"), makeKey("a3", "1") }

\* A checkpoint file written by earlier runs exists.
InitFilter ==
  /\ SharedOff
  /\ input \in Inputs
  /\ isNative \in BOOLEAN
  /\ decimalsOverride \in BOOLEAN
  /\ (isNative => ~decimalsOverride)
  /\ fileExists = TRUE
  /\ fileKeys \in SUBSET ConfirmedPool
  /\ paid = [a \in Canonical |-> 0]
  /\ allowance = 0
  /\ balance = MaxFunds
  /\ runs = 0
  /\ everDisabled = FALSE
  /\ pc = "idle"
  /\ error = "none"
  /\ DISABLE_CHECKPOINTS = FALSE
  /\ sentKeys = {}
  /\ loadedKeys = {}
  /\ validEntries = <<>>
  /\ gasBudget = 0
  /\ chunkSize = 1
  /\ i = 1
  /\ trace = <<>>
  /\ ProbeOff
  /\ RetryOff
  /\ FrontOff
  /\ ContractOff

\* the pre-check, the checkpoint load, the decimals and the validation loop
NextFilter ==
  \/ StartRun
  \/ Decimals

SpecFilter == InitFilter /\ [][NextFilter]_vars

\* --------------------------------------------- callWithRetry and limitPace
\* main() at rest: the unit specifications below leave it alone
ScriptOff ==
  /\ input = <<EntryPool[1]>>
  /\ isNative = TRUE
  /\ decimalsOverride = FALSE
  /\ fileExists = FALSE
  /\ fileKeys = {}
  /\ runs = 0
  /\ everDisabled = FALSE
  /\ pc = "idle"
  /\ error = "none"
  /\ DISABLE_CHECKPOINTS = FALSE
  /\ sentKeys = {}
  /\ loadedKeys = {}
  /\ validEntries = <<>>
  /\ gasBudget = 0
  /\ chunkSize = 1
  /\ i = 1
  /\ trace = <<>>

MainOff ==
  /\ ScriptOff
  /\ paid = [a \in Canonical |-> 0]
  /\ allowance = 0
  /\ balance = 0

\* What an operation may throw: an error with status 429, an error whose
\* message names the rate limit, any other error.
ErrorKinds == {"status429", "messageRateLimit", "other"}

\* e?.status === 429 || /429|rate limit|too many requests/.test(msg)
isRateLimitError(e) == e.kind \in {"status429", "messageRateLimit"}

\* the error thrown by the k-th invocation of an operation that fails with f
errorOf(f, k) == [kind |-> f[k], id |-> k]

FailPatterns == UNION {[1..n -> ErrorKinds] : n \in 0..MaxFails}

\* Variant: only the errors that are not rate-limit errors count against the
\* ceiling.
shouldThrow_otherOnly(rateLimited, n, max) == ~rateLimited /\ n >= max

\* if (!rateLimited && attempt >= MAX) throw e; if (attempt >= MAX) throw e;
shouldThrow(rateLimited, n, max) == (~rateLimited /\ n >= max) \/ n >= max

\* Variant: the wait is one short of the interval.
paceWait_short(last, interval, t) == last + interval - t - 1

\* const wait = lastCallAt + RATE_LIMIT_INTERVAL_MS - now
paceWait(last, interval, t) == last + interval - t

\* the start times of the last two invocations
lastTwo(ss) == IF Len(ss) > 2 THEN SubSeq(ss, Len(ss) - 1, Len(ss)) ELSE ss

\* Math.max(1, Math.floor(delay * 0.2))
jitterCeiling(d) == Max(1, d \div 5)

\* Math.floor(Math.random() * ceiling): Math.random() is in [0, 1)
Jitters(d) == 0..(jitterCeiling(d) - 1)

\* Variant: the wait is not capped.
backoffWait_uncapped(d, jitter, max) == d + jitter

\* const waitMs = Math.min(delay + jitter, RETRY_MAX_MS)
backoffWait(d, jitter, max) == Min(d + jitter, max)

\* delay = Math.min(delay * 2, RETRY_MAX_MS)
nextDelay(d, max) == Min(d * 2, max)

\* the configured base delays and maximum delays looked at
BaseDelays == {1, MaxBase}
MaxDelays == {MaxBase - 1, 2 * MaxBase + 1, 4 * MaxBase}

\* The process starts with some ceiling and interval; its clock (Date.now())
\* is past the first interval, as lastCallAt starts at 0. The backoff is
\* configured away (RETRY_BASE_MS=0, RETRY_MAX_MS=0).
InitRetry ==
  /\ SharedOff
  /\ MainOff
  /\ ProbeOff
  /\ FrontOff
  /\ ContractOff
  /\ RETRY_MAX_ATTEMPTS \in 1..MaxAttempts
  /\ RATE_LIMIT_INTERVAL_MS \in 0..MaxInterval
  /\ RETRY_BASE_MS = 0
  /\ RETRY_MAX_MS = 0
  /\ fails = <<>>
  /\ attempt = 0
  /\ delay = 0
  /\ waitMs = 0
  /\ invoked = 0
  /\ rpc = "off"
  /\ outcome = NoOutcome
  /\ now = MaxInterval
  /\ lastCallAt = 0
  /\ starts = <<>>
  /\ paced = 0
  /\ ops = 0

\* callWithRetry(fn, label) is called: attempt = 0, and the loop is entered
CallWithRetry ==
  /\ rpc \in {"off", "returned", "thrown"}
  /\ ops < MaxOps
  /\ ops' = ops + 1
  /\ fails' \in FailPatterns
  /\ attempt' = 0
  /\ delay' = RETRY_BASE_MS
  /\ waitMs' = 0
  /\ invoked' = 0
  /\ outcome' = NoOutcome
  /\ rpc' = "pace"
  /\ UNCHANGED <<sharedVars, cfgVars, fileVars, chainVars, histVars, runVars, probeVars,
                 frontVars, contractVars,
                 RETRY_MAX_ATTEMPTS, RATE_LIMIT_INTERVAL_MS, RETRY_BASE_MS,
                 RETRY_MAX_MS, now, lastCallAt, starts, paced>>

\* await limitPace(); then fn() is invoked. sleep(wait) ends when wait has
\* passed, and fn() starts in the turn in which limitPace returns.
LimitPace ==
  /\ rpc = "pace"
  /\ IF RATE_LIMIT_INTERVAL_MS <= 0
       THEN /\ paced' = 0
            /\ UNCHANGED <<now, lastCallAt>>
       ELSE LET wait == paceWait(lastCallAt, RATE_LIMIT_INTERVAL_MS, now) IN
            /\ paced' = (IF wait > 0 THEN wait ELSE 0)
            /\ now' = now + (IF wait > 0 THEN wait ELSE 0)
            /\ lastCallAt' = now'
  /\ starts' = lastTwo(Append(starts, now'))
  /\ invoked' = invoked + 1
  /\ rpc' = "call"
  /\ UNCHANGED <<sharedVars, cfgVars, fileVars, chainVars, histVars, runVars, probeVars,
                 frontVars, contractVars,
                 RETRY_MAX_ATTEMPTS, RATE_LIMIT_INTERVAL_MS, RETRY_BASE_MS,
                 RETRY_MAX_MS, fails, attempt, delay, waitMs, outcome, ops>>

\* fn() settles: it returns, or it throws and the catch block decides
Settle ==
  /\ rpc = "call"
  /\ now' \in now..(now + MaxGap)
  /\ IF invoked <= Len(fails)
       THEN LET e == errorOf(fails, invoked) IN
            /\ attempt' = attempt + 1
            /\ IF shouldThrow(isRateLimitError(e), attempt', RETRY_MAX_ATTEMPTS)
                 THEN /\ rpc' = "thrown"
                      /\ outcome' = [threw |-> TRUE, value |-> e]
                      /\ waitMs' = waitMs
                 ELSE /\ rpc' = "sleep"
                      /\ outcome' = outcome
                      /\ \E jitter \in Jitters(delay) :
                           waitMs' = backoffWait(delay, jitter, RETRY_MAX_MS)
       ELSE /\ rpc' = "returned"
            /\ outcome' = [threw |-> FALSE, value |-> "result"]
            /\ attempt' = attempt
            /\ waitMs' = waitMs
  /\ UNCHANGED <<sharedVars, cfgVars, fileVars, chainVars, histVars, runVars, probeVars,
                 frontVars, contractVars,
                 RETRY_MAX_ATTEMPTS, RATE_LIMIT_INTERVAL_MS, RETRY_BASE_MS,
                 RETRY_MAX_MS, fails, delay, invoked, lastCallAt, starts, paced,
                 ops>>

\* await sleep(waitMs), which ends when waitMs has passed;
\* delay = Math.min(delay * 2, RETRY_MAX_MS)
Backoff ==
  /\ rpc = "sleep"
  /\ now' = now + waitMs
  /\ delay' = nextDelay(delay, RETRY_MAX_MS)
  /\ rpc' = "pace"
  /\ UNCHANGED <<sharedVars, cfgVars, fileVars, chainVars, histVars, runVars, probeVars,
                 frontVars, contractVars,
                 RETRY_MAX_ATTEMPTS, RATE_LIMIT_INTERVAL_MS, RETRY_BASE_MS,
                 RETRY_MAX_MS, fails, attempt, waitMs, invoked,
                 outcome, lastCallAt, starts, paced, ops>>

NextRetry ==
  \/ CallWithRetry
  \/ LimitPace
  \/ Settle
  \/ Backoff

SpecRetry == InitRetry /\ [][NextRetry]_vars

\* callWithRetry with its backoff, under the largest ceiling and with pacing
\* disabled (RATE_LIMIT_INTERVAL_MS=0)
InitBackoff ==
  /\ SharedOff
  /\ MainOff
  /\ ProbeOff
  /\ FrontOff
  /\ ContractOff
  /\ RETRY_MAX_ATTEMPTS = MaxAttempts
  /\ RATE_LIMIT_INTERVAL_MS = 0
  /\ RETRY_BASE_MS \in BaseDelays
  /\ RETRY_MAX_MS \in MaxDelays
  /\ fails = <<>>
  /\ attempt = 0
  /\ delay = 0
  /\ waitMs = 0
  /\ invoked = 0
  /\ rpc = "off"
  /\ outcome = NoOutcome
  /\ now = 0
  /\ lastCallAt = 0
  /\ starts = <<>>
  /\ paced = 0
  /\ ops = 0

SpecBackoff == InitBackoff /\ [][NextRetry]_vars

\* ------------------------------------------------- the front-end (App.tsx)
\* parseCsv: the rows {address, amount} of the uploaded file
rowsOf(entries) ==
  [k \in 1..Len(entries) |->
     [address |-> entries[k].address, amount |-> entries[k].amountStr]]

RowInputs == {rowsOf(e) : e \in Inputs}

RECURSIVE normalizedFrom(_, _, _, _, _)
\* the loop of normalized: a row whose address was seen is recorded as a
\* duplicate and skipped; the first occurrence is kept
normalizedFrom(rs, d, addrs, dups, out) ==
  IF rs = <<>> THEN [entries |-> out, duplicates |-> dups]
  ELSE LET r == Head(rs) IN
    IF ~isAddress(r.address)
      THEN normalizedFrom(Tail(rs), d, addrs, dups, out)
      ELSE LET addr == getAddress(r.address) IN
        IF addr \in addrs
          THEN normalizedFrom(Tail(rs), d, addrs, dups \cup {addr}, out)
          ELSE IF d = "null" \/ parseUnits(r.amount) <= 0
            THEN normalizedFrom(Tail(rs), d, addrs \cup {addr}, dups, out)
            ELSE normalizedFrom(Tail(rs), d, addrs \cup {addr}, dups,
                   Append(out, [address |-> addr, amountStr |-> r.amount,
                                amountWei |-> parseUnits(r.amount)]))

\* const normalized = useMemo(...)
normalized == normalizedFrom(rows, decimals, {}, {}, <<>>)

uiRecipients == [k \in 1..Len(normalized.entries) |-> normalized.entries[k].address]
uiAmounts == [k \in 1..Len(normalized.entries) |-> normalized.entries[k].amountWei]
totalWei == SumSeq(uiAmounts)

RECURSIVE estDoubling(_, _, _, _, _, _, _)
\* estimateChunkSize: for (let test = 1; test <= high; test *= 2) { ... }
estDoubling(est, budget, test, low, high, safe, calls) ==
  IF test > high
    THEN [low |-> low, high |-> high, safe |-> safe, calls |-> calls]
    ELSE LET c == Append(calls, test) IN
         IF est[test] = 0 \/ est[test] >= budget
           THEN [low |-> low, high |-> test, safe |-> safe, calls |-> c]
           ELSE IF test = high
             THEN [low |-> test, high |-> high, safe |-> test, calls |-> c]
             ELSE estDoubling(est, budget, test * 2, test, high, test, c)

RECURSIVE estBinary(_, _, _, _, _, _)
\* estimateChunkSize: while (low + 1 < high) { ... }
estBinary(est, budget, low, high, safe, calls) ==
  IF low + 1 < high
    THEN LET mid == (low + high) \div 2
             c == Append(calls, mid)
         IN IF est[mid] # 0 /\ est[mid] < budget
              THEN estBinary(est, budget, mid, high, mid, c)
              ELSE estBinary(est, budget, low, mid, safe, c)
    ELSE [safe |-> safe, calls |-> calls]

\* Variant: the result of the doubling is returned, without the binary search.
estimateChunkSize_noBinary(est, budget, n) ==
  LET d == estDoubling(est, budget, 1, 1, Min(n, ProbeCap), 1, <<>>)
  IN [chunkSize |-> Max(1, d.safe), calls |-> d.calls]

\* estimateChunkSize(recips, amts, maxTry = Math.min(recips.length, 512))
estimateChunkSize(est, budget, n) ==
  LET d == estDoubling(est, budget, 1, 1, Min(n, ProbeCap), 1, <<>>)
      b == estBinary(est, budget, d.low, d.high, d.safe, d.calls)
  IN [chunkSize |-> Max(1, b.safe), calls |-> b.calls]

\* the front-end's search, given the same working set, budget and estimates
RunEstimate ==
  /\ pFront = NoResult
  /\ pN > 0
  /\ pFront' = estimateChunkSize(pEst, pBudget, pN)
  /\ UNCHANGED <<sharedVars, cfgVars, fileVars, chainVars, histVars, runVars,
                 pN, pEst, pBudget, pResult, retryVars, frontVars, contractVars>>

NextProbe ==
  \/ RunSearch
  \/ RunEstimate

SpecProbe == InitProbe /\ [][NextProbe]_vars

rChunks == chunk(uiRecipients, uiChunkSize)
aChunks == chunk(uiAmounts, uiChunkSize)

UiEvents(op) == {p \in 1..Len(uiTrace) : uiTrace[p].op = op}

\* A wallet is connected, the token and BatchSender addresses are filled in,
\* a CSV has been uploaded.
InitFront ==
  /\ SharedOff
  /\ ScriptOff
  /\ ProbeOff
  /\ RetryOff
  /\ ContractOff
  /\ paid = [a \in Canonical |-> 0]
  /\ allowance \in {0, MaxFunds}
  /\ balance = 0
  /\ rows \in RowInputs
  /\ decimals = "null"
  /\ sending = FALSE
  /\ status = ""
  /\ uiPc = "idle"
  /\ uiChunkSize = 0
  /\ uiI = 1
  /\ uiTrace = <<>>
  /\ sends = 0

\* fetchTokenDetails: decimals() answers with a number, or it does not
FetchTokenDetails ==
  /\ uiPc = "idle"
  /\ decimals = "null"
  /\ \E d \in {"null", "18"} :
       /\ decimals' = d
       /\ status' = (IF d = "null" THEN "Token: ERC20" ELSE "Token: 18 decimals")
  /\ UNCHANGED <<sharedVars, scriptVars, chainVars, probeVars, retryVars, contractVars,
                 rows, sending, uiPc, uiChunkSize, uiI, uiTrace, sends>>

\* onSend up to its first remote call
OnSend ==
  /\ uiPc = "idle"
  /\ sends < MaxSends
  /\ sends' = sends + 1
  /\ IF decimals = "null"
       THEN /\ status' = "Fetch token decimals first"
            /\ UNCHANGED <<sending, uiPc, uiTrace>>
       ELSE IF Len(uiRecipients) = 0
         THEN /\ status' = "No valid entries"
              /\ UNCHANGED <<sending, uiPc, uiTrace>>
         ELSE /\ sending' = TRUE
              /\ uiPc' = "allowance"
              /\ uiTrace' = <<>>
              /\ status' = status
  /\ UNCHANGED <<sharedVars, scriptVars, chainVars, probeVars, retryVars, contractVars,
                 rows, decimals, uiChunkSize, uiI>>

\* token.allowance(signer, batch) returned
UiAllowance ==
  /\ uiPc = "allowance"
  /\ uiTrace' = Append(uiTrace, Ev("allowance", allowance, TRUE))
  /\ IF allowance < totalWei
       THEN uiPc' = "approve" /\ status' = "Approving token allowance..."
       ELSE uiPc' = "estimate" /\ status' = "Estimating chunk size..."
  /\ UNCHANGED <<sharedVars, scriptVars, chainVars, probeVars, retryVars, contractVars,
                 rows, decimals, sending, uiChunkSize, uiI, sends>>

\* token.approve(batch, totalWei) was submitted
UiApprove ==
  /\ uiPc = "approve"
  /\ uiTrace' = Append(uiTrace, Ev("approve", totalWei, TRUE))
  /\ uiPc' = "approveWait"
  /\ status' = "Approve submitted"
  /\ UNCHANGED <<sharedVars, scriptVars, chainVars, probeVars, retryVars, contractVars,
                 rows, decimals, sending, uiChunkSize, uiI, sends>>

\* the approve transaction confirmed
UiApproveWait ==
  /\ uiPc = "approveWait"
  /\ uiTrace' = Append(uiTrace, Ev("approveWait", 0, TRUE))
  /\ allowance' = totalWei
  /\ uiPc' = "estimate"
  /\ status' = "Estimating chunk size..."
  /\ UNCHANGED <<sharedVars, scriptVars, paid, balance, probeVars, retryVars, contractVars,
                 rows, decimals, sending, uiChunkSize, uiI, sends>>

\* estimateChunkSize returned
UiEstimate ==
  /\ uiPc = "estimate"
  /\ \E est \in [1..Len(uiRecipients) -> 0..MaxCost] :
       LET r == estimateChunkSize(est, MaxBudget, Len(uiRecipients)) IN
       /\ uiChunkSize' = r.chunkSize
       /\ uiTrace' = uiTrace \o estimateEvents(est, r.calls)
  /\ uiI' = 1
  /\ uiPc' = "submit"
  /\ status' = "Sending chunk"
  /\ UNCHANGED <<sharedVars, scriptVars, chainVars, probeVars, retryVars, contractVars,
                 rows, decimals, sending, sends>>

\* batch.batchTransferERC20(tokenAddress, r, a) returned a transaction
UiSubmit ==
  /\ uiPc = "submit"
  /\ allowance >= SumSeq(aChunks[uiI])
  /\ uiTrace' = Append(uiTrace, Ev("submit", uiI, TRUE))
  /\ uiPc' = "wait"
  /\ status' = "Chunk submitted"
  /\ UNCHANGED <<sharedVars, scriptVars, chainVars, probeVars, retryVars, contractVars,
                 rows, decimals, sending, uiChunkSize, uiI, sends>>

\* the chunk's transaction is executed and tx.wait() returns
UiConfirm ==
  /\ uiPc = "wait"
  /\ uiTrace' = Append(uiTrace, Ev("wait", uiI, TRUE))
  /\ paid' = [a \in Canonical |->
                paid[a] + Cardinality({k \in 1..Len(rChunks[uiI]) : rChunks[uiI][k] = a})]
  /\ allowance' = allowance - SumSeq(aChunks[uiI])
  /\ uiI' = uiI + 1
  /\ IF uiI >= Len(rChunks)
       THEN uiPc' = "idle" /\ sending' = FALSE /\ status' = "Done"
       ELSE uiPc' = "submit" /\ sending' = sending /\ status' = "Sending chunk"
  /\ UNCHANGED <<sharedVars, scriptVars, balance, probeVars, retryVars, contractVars,
                 rows, decimals, uiChunkSize, sends>>

\* a remote call of onSend throws: catch, setStatus("Send failed: ...")
UiFails ==
  /\ uiPc \in {"allowance", "approve", "approveWait", "estimate", "submit", "wait"}
  /\ uiTrace' = Append(uiTrace, Ev(uiPc, uiI, FALSE))
  /\ uiPc' = "idle"
  /\ sending' = FALSE
  /\ status' = "Send failed"
  /\ UNCHANGED <<sharedVars, scriptVars, chainVars, probeVars, retryVars, contractVars,
                 rows, decimals, uiChunkSize, uiI, sends>>

NextFront ==
  \/ FetchTokenDetails
  \/ OnSend
  \/ UiAllowance
  \/ UiApprove
  \/ UiApproveWait
  \/ UiEstimate
  \/ UiSubmit
  \/ UiConfirm
  \/ UiFails

SpecFront == InitFront /\ [][NextFront]_vars

\* ------------------------------------------- the contract (BatchSender.sol)
\* One transaction calling batchTransferERC20 or batchTransferNative. The EVM
\* undoes every state change of a transaction that reverts: chain goes back
\* to snapshot.
\* "self" is the BatchSender contract, "R" a recipient that is a contract and
\* runs code when it is paid, "zero" is address(0).
Accounts == {"sender", "A1", "self", "R"}
Recipients == {"A1", "zero", "self", "R"}

\* the token argument: address(0), an address without code, a token that
\* moves what it is asked to move, a token that keeps a fee of 1 per transfer
TokenKinds == {"zero", "noCode", "standard", "fee"}

\* what token.call(data) gives back: success and the return data
TokenResponses == [success : BOOLEAN, returndata : {"empty", "true", "false"}]

\* what a recipient contract does when it is paid
Behaviours == {"accept", "reject", "reenter", "deposit"}

ArraysUpTo(S) == UNION {[1..n -> S] : n \in 0..MaxBatch}

Txs ==
  [fn : {"erc20"}, token : TokenKinds, recipients : ArraysUpTo(Recipients),
   amounts : ArraysUpTo(0..MaxAmount), value : {0}]
  \cup
  [fn : {"native"}, token : {"none"}, recipients : ArraysUpTo(Recipients),
   amounts : ArraysUpTo(0..MaxAmount), value : 0..(MaxBatch * MaxAmount)]

NoneGot == [a \in Accounts |-> 0]

\* the amounts listed for account a with a non-zero amount
listed(call, a) ==
  SumSeq([k \in 1..Min(Len(call.recipients), Len(call.amounts)) |->
            IF call.recipients[k] = a THEN call.amounts[k] ELSE 0])

\* Variant: the return data is not looked at.
callOptionalReturn_unchecked(success, returndata) == success

\* _callOptionalReturn: require(success); if data came back, require it is true
callOptionalReturn(success, returndata) ==
  success /\ (returndata = "empty" \/ returndata = "true")

\* the require statements before the transfer loop
requiresHold ==
  IF tx.fn = "erc20"
    THEN /\ tx.token # "zero"
         /\ Len(tx.recipients) = Len(tx.amounts)
         /\ Len(tx.recipients) > 0
         /\ tx.token # "noCode"
         /\ chain.allowance >= SumSeq(tx.amounts)
    ELSE /\ Len(tx.recipients) = Len(tx.amounts)
         /\ Len(tx.recipients) > 0
         /\ tx.value = SumSeq(tx.amounts)

\* the transaction reverts
Reverts ==
  /\ chain' = snapshot
  /\ got' = NoneGot
  /\ cpc' = "reverted"
  /\ UNCHANGED <<tx, snapshot, ci>>

move(bal, from, to, out, in) ==
  [a \in Accounts |-> bal[a] - (IF a = from THEN out ELSE 0) + (IF a = to THEN in ELSE 0)]

InitContract ==
  /\ SharedOff
  /\ MainOff
  /\ ProbeOff
  /\ RetryOff
  /\ FrontOff
  /\ tx \in Txs
  /\ \E funds \in {1, MaxBatch * MaxAmount}, held \in 0..1 :
       chain = [bal |-> [a \in Accounts |->
                           IF a = "sender"
                             THEN (IF tx.fn = "native" THEN tx.value ELSE funds)
                             ELSE IF a = "self" /\ tx.fn = "native" THEN held ELSE 0],
                allowance |-> IF tx.fn = "native" THEN 0 ELSE funds]
  /\ snapshot = chain
  /\ got = NoneGot
  /\ ci = 1
  /\ cpc = "start"

\* the call is entered: msg.value moves to the contract, the require
\* statements are evaluated
Enter ==
  /\ cpc = "start"
  /\ IF requiresHold
       THEN /\ chain' = [chain EXCEPT !.bal = move(chain.bal, "sender", "self",
                                                    tx.value, tx.value)]
            /\ cpc' = "loop"
            /\ UNCHANGED <<tx, snapshot, got, ci>>
       ELSE Reverts
  /\ UNCHANGED <<sharedVars, scriptVars, chainVars, probeVars, retryVars, frontVars>>

\* one iteration of the transfer loop of batchTransferERC20
TransferERC20 ==
  /\ cpc = "loop"
  /\ tx.fn = "erc20"
  /\ ci <= Len(tx.recipients)
  /\ LET amt == tx.amounts[ci]
         to == tx.recipients[ci]
     IN IF amt = 0
          THEN /\ ci' = ci + 1
               /\ UNCHANGED <<tx, chain, snapshot, got, cpc>>
          ELSE IF to = "zero"
            THEN Reverts
            ELSE \E resp \in TokenResponses :
                   \* the token moves the amount unless it fails or returns
                   \* false, and then the sender had the funds and the allowance
                   LET moves == resp.success /\ resp.returndata # "false" IN
                   /\ moves => (chain.bal["sender"] >= amt /\ chain.allowance >= amt)
                   /\ IF callOptionalReturn(resp.success, resp.returndata)
                        THEN LET in == IF ~moves THEN 0
                                       ELSE IF tx.token = "fee" THEN amt - 1 ELSE amt
                                 out == IF moves THEN amt ELSE 0
                             IN /\ chain' = [bal |-> move(chain.bal, "sender", to, out, in),
                                             allowance |-> chain.allowance - out]
                                /\ got' = [got EXCEPT ![to] = @ + in]
                                /\ ci' = ci + 1
                                /\ UNCHANGED <<tx, snapshot, cpc>>
                        ELSE Reverts
  /\ UNCHANGED <<sharedVars, scriptVars, chainVars, probeVars, retryVars, frontVars>>

\* one iteration of the transfer loop of batchTransferNative
TransferNative ==
  /\ cpc = "loop"
  /\ tx.fn = "native"
  /\ ci <= Len(tx.recipients)
  /\ LET amt == tx.amounts[ci]
         to == tx.recipients[ci]
     IN IF amt = 0
          THEN /\ ci' = ci + 1
               /\ UNCHANGED <<tx, chain, snapshot, got, cpc>>
          ELSE IF to = "zero" \/ chain.bal["self"] < amt
            THEN Reverts
            ELSE \E does \in Behaviours :
                   /\ to # "R" => does = "accept"
                   /\ IF does = "reject"
                        THEN Reverts
                        ELSE LET paidOut == move(chain.bal, "self", to, amt, amt)
                                 after ==
                                   CASE does = "accept" -> paidOut
                                     [] does = "reenter" ->
                                          \* R calls batchTransferNative(["A1"], [1])
                                          \* with value 1
                                          move(paidOut, "R", "A1", 1, 1)
                                     [] does = "deposit" ->
                                          \* R sends 1 to the contract: receive()
                                          move(paidOut, "R", "self", 1, 1)
                             IN /\ chain' = [chain EXCEPT !.bal = after]
                                /\ got' = [got EXCEPT ![to] = @ + amt]
                                /\ ci' = ci + 1
                                /\ UNCHANGED <<tx, snapshot, cpc>>
  /\ UNCHANGED <<sharedVars, scriptVars, chainVars, probeVars, retryVars, frontVars>>

\* the loop is over: the event is emitted and the call returns
Emit ==
  /\ cpc = "loop"
  /\ ci > Len(tx.recipients)
  /\ cpc' = "success"
  /\ UNCHANGED <<tx, chain, snapshot, got, ci>>
  /\ UNCHANGED <<sharedVars, scriptVars, chainVars, probeVars, retryVars, frontVars>>

\* the transaction runs out of gas
OutOfGas ==
  /\ cpc = "loop"
  /\ Reverts
  /\ UNCHANGED <<sharedVars, scriptVars, chainVars, probeVars, retryVars, frontVars>>

NextContract ==
  \/ Enter
  \/ TransferERC20
  \/ TransferNative
  \/ Emit
  \/ OutOfGas

SpecContract == InitContract /\ [][NextContract]_vars

\* ------------------- two runs of different sessions, one checkpoint file
Procs == {"P1", "P2"}

\* sha256 of wallet|batch|asset|input path: the two runs differ in one of them
sessionId(p) == IF p = "P1" THEN "S1" ELSE "S2"

Sessions == {sessionId(p) : p \in Procs}

\* the recipient of chunk k (chunks of one entry)
ChunkRecipients == <<"a1", "a2", "a3">>

\* entriesChunk.map(e => makeKey(e.address, e.amountStr))
newlySentOf(k) == {makeKey(ChunkRecipients[k], "1")}

\* a key an earlier run stored, its line being no longer in the input
OldKey == makeKey("a4", "1")

\* checkpoints = {}
NoCheckpoints == [s \in Sessions |-> {}]

\* Variant: the object written holds the writer's session only.
writtenCheckpoints_ownOnly(cp, sid, updated) ==
  [s \in Sessions |-> IF s = sid THEN updated ELSE {}]

\* checkpoints[sessionId] = { sentKeys: Array.from(updated) }
writtenCheckpoints(cp, sid, updated) == [cp EXCEPT ![sid] = updated]

\* Two processes are about to start; the file may hold older keys of either
\* session.
InitShared ==
  /\ MainOff
  /\ ProbeOff
  /\ RetryOff
  /\ FrontOff
  /\ ContractOff
  /\ sfile \in [content : [Sessions -> {{}, {OldKey}}], writer : {"none"}]
  /\ procs \in [Procs -> [pc : {"idle"}, checkpoints : {NoCheckpoints},
                          loaded : {NoCheckpoints}, sentKeys : {{}}, i : {1},
                          n : 1..MaxChunks, persisted : {{}}]]

\* the checkpoint load of process p: the whole file, or {} when it cannot be
\* read; sentKeys is the entry of the process's own session
Load(p) ==
  /\ procs[p].pc = "idle"
  /\ \E readOk \in BOOLEAN :
       LET cp == IF readOk THEN sfile.content ELSE NoCheckpoints IN
       procs' = [procs EXCEPT ![p] =
                   [@ EXCEPT !.pc = "running", !.checkpoints = cp, !.loaded = cp,
                             !.sentKeys = cp[sessionId(p)]]]
  /\ UNCHANGED <<scriptVars, chainVars, probeVars, retryVars, frontVars,
                 contractVars, sfile>>

\* a chunk of process p confirmed: its session's entry of the in-memory
\* object is replaced, the whole object is written, sentKeys is updated
ConfirmChunk(p) ==
  /\ procs[p].pc = "running"
  /\ \E writeOk \in BOOLEAN :
       LET me == procs[p]
           newlySent == newlySentOf(me.i)
           updated == updatedKeys(me.sentKeys, newlySent)
           cp == writtenCheckpoints(me.checkpoints, sessionId(p), updated)
       IN /\ sfile' = (IF writeOk THEN [content |-> cp, writer |-> p] ELSE sfile)
          /\ procs' = [procs EXCEPT ![p] =
                         [@ EXCEPT !.checkpoints = cp,
                                   !.sentKeys = nextSentKeys(me.sentKeys, newlySent, writeOk),
                                   !.i = me.i + 1,
                                   !.pc = (IF me.i >= me.n THEN "done" ELSE "running"),
                                   !.persisted = (IF writeOk THEN me.persisted \cup updated
                                                  ELSE me.persisted)]]
  /\ UNCHANGED <<scriptVars, chainVars, probeVars, retryVars, frontVars,
                 contractVars>>

\* a chunk of process p failed: the run ends
ChunkFails(p) ==
  /\ procs[p].pc = "running"
  /\ procs' = [procs EXCEPT ![p] = [@ EXCEPT !.pc = "failed"]]
  /\ UNCHANGED <<scriptVars, chainVars, probeVars, retryVars, frontVars,
                 contractVars, sfile>>

NextShared ==
  \/ \E p \in Procs : Load(p)
  \/ \E p \in Procs : ConfirmChunk(p)
  \/ \E p \in Procs : ChunkFails(p)

SpecShared == InitShared /\ [][NextShared]_vars

\* ------------------------------------------------------------ properties
Events(op) == {p \in 1..Len(trace) : trace[p].op = op}
RemoteEvents == {p \in 1..Len(trace) : trace[p].op \in RemoteOps}
keysOfChunks(chunks, from, to) == UNION {keysOf(chunks[j]) : j \in from..to}

\* C1: over all runs of the session, crashes included, no entry is
\* transferred on chain more than once (as long as no run had checkpoints
\* disabled).
C1_NoDoubleTransfer == ~everDisabled => \A a \in Canonical : paid[a] <= 1

\* C2 (as stated): in every run a chunk's keys are written only after its
\* confirmation wait returned successfully, and chunk k+1 is not submitted
\* before the checkpoint write for chunk k was attempted.
C2_ConfirmPersistProceed ==
  \A p \in 1..Len(trace) :
    /\ trace[p].op = "write" =>
         \E q \in 1..(p - 1) :
           trace[q].op = "wait" /\ trace[q].arg = trace[p].arg /\ trace[q].ok
    /\ (trace[p].op = "submit" /\ trace[p].arg > 1) =>
         \E q \in 1..(p - 1) :
           trace[q].op = "write" /\ trace[q].arg = trace[p].arg - 1

\* C2 (amended): the ordering confirm, persist, proceed holds in every run
\* with checkpoints enabled; a run with checkpoints disabled attempts no
\* checkpoint write at all.
C2_ConfirmPersistProceedWhenEnabled ==
  /\ \A p \in 1..Len(trace) :
       /\ trace[p].op = "write" =>
            \E q \in 1..(p - 1) :
              trace[q].op = "wait" /\ trace[q].arg = trace[p].arg /\ trace[q].ok
       /\ (~DISABLE_CHECKPOINTS /\ trace[p].op = "submit" /\ trace[p].arg > 1) =>
            \E q \in 1..(p - 1) :
              trace[q].op = "write" /\ trace[q].arg = trace[p].arg - 1
  /\ DISABLE_CHECKPOINTS => Events("write") = {}

C2_Witness ==
  /\ ~DISABLE_CHECKPOINTS
  /\ \E p \in Events("submit") : trace[p].arg = 2
  /\ \E p \in Events("write") : trace[p].arg = 1 /\ ~trace[p].ok

\* C3: with checkpoints enabled, no step of any run of the session removes
\* a key from the persisted set.
C3_NeverLosesKey == [][~DISABLE_CHECKPOINTS' => fileKeys \subseteq fileKeys']_vars

\* C4: a run with checkpoints enabled that loads a confirmed set holding the
\* key of every valid entry of the input (there is at least one) fails with
\* the no-remaining-entries error and has issued no remote call.
C4_NoRemainingNoRemoteCall ==
  LET allValid == keysOf(validate(input, TRUE, {})) IN
  ( /\ pc \notin {"idle", "crashed", "decimals"}
    /\ ~DISABLE_CHECKPOINTS
    /\ error # "duplicate"
    /\ allValid # {}
    /\ allValid \subseteq loadedKeys )
  => /\ pc = "failed"
     /\ error = "noRemaining"
     /\ RemoteEvents = {}

\* C5: with checkpoints enabled, when chunk i fails unrecoverably no call for
\* a later chunk is issued and the file holds the keys of chunks 1..i-1; and
\* the run that follows has as working set the entries of chunks i and later,
\* in order (stated for the runs whose validation is part of their first step).
C5_FailFastAndResume ==
  [][ /\ (pc' = "failed" /\ error' = "chunk" /\ ~DISABLE_CHECKPOINTS') =>
           /\ \A p \in 1..Len(trace') :
                trace'[p].op \in {"submit", "wait"} => trace'[p].arg <= i'
           /\ keysOfChunks(entryChunks', 1, i' - 1) \subseteq fileKeys'
      /\ ( /\ pc = "failed" /\ error = "chunk" /\ ~DISABLE_CHECKPOINTS
           /\ runs' = runs + 1
           /\ ~DISABLE_CHECKPOINTS'
           /\ pc' # "decimals" ) =>
           validEntries' = Flatten(SubSeq(entryChunks, i, Len(entryChunks)))
    ]_vars

\* C6: right after the checkpoint write for chunk k succeeded, the persisted
\* set is the set loaded at run start plus the keys of chunks 1..k, and holds
\* no key of a later chunk.
C6_PersistedAfterChunk ==
  (trace # <<>> /\ trace[Len(trace)].op = "write" /\ trace[Len(trace)].ok) =>
    LET k == trace[Len(trace)].arg IN
    /\ fileKeys = loadedKeys \cup keysOfChunks(entryChunks, 1, k)
    /\ keysOfChunks(entryChunks, k + 1, Len(entryChunks)) \cap fileKeys = {}

C6_Witness ==
  /\ Len(validEntries) = 3
  /\ chunkSize = 2
  /\ trace # <<>>
  /\ trace[Len(trace)] = Ev("write", 1, TRUE)
  /\ fileKeys = {makeKey(validEntries[1].address, validEntries[1].amountStr),
                 makeKey(validEntries[2].address, validEntries[2].amountStr)}

\* C7: for an estimator that is always available and non-decreasing in the
\* prefix length, with the single-entry estimate below the budget, the search
\* returns the largest n in 1..min(N, 512) whose estimate is below the budget.
C7_LargestFittingPrefix ==
  ( /\ pResult # NoResult
    /\ \A n \in 1..pN : pEst[n] # 0
    /\ \A n \in 1..pN : \A m \in n..pN : pEst[n] <= pEst[m]
    /\ pEst[1] < pBudget )
  => /\ pResult.chunkSize \in 1..Min(pN, ProbeCap)
     /\ pEst[pResult.chunkSize] < pBudget
     /\ \A n \in 1..Min(pN, ProbeCap) :
          pEst[n] < pBudget => n <= pResult.chunkSize

\* C8: for every non-empty working set and every pattern of estimator
\* outcomes the chunk size is at least 1 and at most the working-set size.
C8_ChunkSizeInRange ==
  pResult # NoResult => (pResult.chunkSize >= 1 /\ pResult.chunkSize <= pN)

C8_Witness ==
  /\ pResult # NoResult
  /\ pN = 3
  /\ pEst[1] = 0
  /\ pResult.chunkSize = 1

\* C9: when every estimate issued for a prefix length >= 2 was unavailable the
\* chunk size is 1 and every chunk holds one entry; and whatever the estimates
\* were, the run goes on to submit: it fails after the search only in the
\* send loop.
C9_FallBackToOne ==
  /\ (pc \in {"submit", "wait", "mined", "done"} \/ (pc = "failed" /\ error = "chunk")) =>
       ( (\A p \in Events("estimate") : trace[p].arg >= 2 => ~trace[p].ok) =>
           /\ chunkSize = 1
           /\ \A k \in 1..Len(entryChunks) : Len(entryChunks[k]) = 1 )
  /\ (Events("estimate") # {} /\ pc = "failed") =>
       (error = "chunk" /\ Events("submit") # {})

C9_Witness ==
  /\ pc = "done"
  /\ Len(validEntries) = 3
  /\ \E p \in Events("estimate") : trace[p].arg = 1 /\ trace[p].ok
  /\ \E p \in Events("estimate") : trace[p].arg = 2 /\ ~trace[p].ok
  /\ \A k \in 1..3 : \E p \in Events("submit") : trace[p].arg = k /\ trace[p].ok

\* C10: when the send loop is set up, for every chunk size s >= 1 the chunks
\* of the working set concatenate to the working set, each is non-empty and
\* no longer than s, all but the last have length s, and the recipient,
\* amount and entry chunks of the run agree index by index.
C10_ChunksPartition ==
  (pc = "submit" /\ i = 1) =>
    /\ \A s \in 1..(MaxEntries + 1) :
         LET cs == chunk(validEntries, s) IN
         /\ Flatten(cs) = validEntries
         /\ \A k \in 1..Len(cs) :
              /\ Len(cs[k]) >= 1
              /\ Len(cs[k]) <= s
              /\ k < Len(cs) => Len(cs[k]) = s
    /\ Len(recipientChunks) = Len(entryChunks)
    /\ Len(amountChunks) = Len(entryChunks)
    /\ \A k \in 1..Len(entryChunks) :
         /\ recipientChunks[k] = recipientsOf(entryChunks[k])
         /\ amountChunks[k] = amountsOf(entryChunks[k])

C10_Witness ==
  /\ Len(validEntries) = 3
  /\ chunkSize = 2
  /\ pc = "submit"
  /\ i = 1
  /\ entryChunks = <<SubSeq(validEntries, 1, 2), SubSeq(validEntries, 3, 3)>>

\* C11: with a ceiling M >= 1, an operation that fails its first k invocations
\* and then succeeds makes callWithRetry return its result after exactly k+1
\* invocations when k < M, and otherwise throw the error of the M-th failure
\* after exactly M invocations, whatever the kinds of the errors.
C11_RetryCeiling ==
  /\ invoked <= Min(Len(fails) + 1, RETRY_MAX_ATTEMPTS)
  /\ rpc = "returned" =>
       /\ Len(fails) < RETRY_MAX_ATTEMPTS
       /\ invoked = Len(fails) + 1
       /\ outcome = [threw |-> FALSE, value |-> "result"]
  /\ rpc = "thrown" =>
       /\ Len(fails) >= RETRY_MAX_ATTEMPTS
       /\ invoked = RETRY_MAX_ATTEMPTS
       /\ outcome = [threw |-> TRUE,
                     value |-> errorOf(fails, RETRY_MAX_ATTEMPTS)]
  /\ rpc = "sleep" => attempt < RETRY_MAX_ATTEMPTS

C11_Witness ==
  /\ rpc = "thrown"
  /\ RETRY_MAX_ATTEMPTS = 2
  /\ Len(fails) = 2
  /\ \A k \in 1..2 : fails[k] = "status429"
  /\ invoked = 2

\* C12: when two input entries have the same canonical address, differing in
\* letter case or not, every run fails with the duplicate-address error having
\* issued no remote call and no submission, and the checkpoint file is never
\* written.
C12_DuplicateFailsFirst ==
  (\E j, k \in 1..Len(input) :
      /\ j # k
      /\ isAddress(input[j].address) /\ isAddress(input[k].address)
      /\ getAddress(input[j].address) = getAddress(input[k].address))
  => /\ pc \in {"idle", "failed"}
     /\ pc = "failed" => error = "duplicate"
     /\ trace = <<>>
     /\ ~fileExists /\ fileKeys = {}
     /\ \A a \in Canonical : paid[a] = 0

C12_Witness ==
  /\ pc = "failed"
  /\ error = "duplicate"
  /\ runs = 2
  /\ \E j, k \in 1..Len(input) : input[j].address = "a1" /\ input[k].address = "A1"

\* C13: in the front-end, when two uploaded rows have the same canonical
\* address, pressing Send submits no approval and no chunk transfer.
C13_FrontEndDuplicateFails ==
  (\E j, k \in 1..Len(rows) :
      /\ j # k
      /\ isAddress(rows[j].address) /\ isAddress(rows[k].address)
      /\ getAddress(rows[j].address) = getAddress(rows[k].address))
  => (UiEvents("approve") = {} /\ UiEvents("submit") = {})

\* C14: in every run, every entry of every submitted chunk has an amount above
\* zero and a valid address, and no canonical address occurs at two positions
\* of the chunks submitted in the run.
C14_SubmittedEntriesValid ==
  LET submitted == {trace[p].arg : p \in {q \in Events("submit") : trace[q].ok}}
      pos == {x \in submitted \X (1..Len(validEntries)) :
                x[2] <= Len(entryChunks[x[1]])}
  IN \A x \in pos :
       LET e == entryChunks[x[1]][x[2]] IN
       /\ e.amt > 0
       /\ isAddress(e.address)
       /\ \A y \in pos :
            x # y => getAddress(entryChunks[y[1]][y[2]].address) # getAddress(e.address)

C14_Witness ==
  /\ pc = "done"
  /\ Len(input) = 3
  /\ \E k \in 1..3 : input[k].amountStr = "0"
  /\ Len(validEntries) = 2
  /\ chunkSize = 1
  /\ \A c \in 1..2 : \E p \in Events("submit") : trace[p].arg = c /\ trace[p].ok

\* C15: in token mode approve is requested exactly when the allowance queried
\* is below the total of the working set, for that total, at most once per
\* run, and it is confirmed before the first estimate or submission, so none
\* is requested between chunks; in native mode none is requested.
C15_ApproveOnceForTotal ==
  /\ isNative =>
       Events("allowance") \cup Events("approve") \cup Events("approveWait") = {}
  /\ Cardinality(Events("approve")) <= 1
  /\ \A p \in Events("approve") :
       /\ p > 1
       /\ trace[p - 1].op = "allowance" /\ trace[p - 1].ok
       /\ trace[p - 1].arg < total
       /\ trace[p].ok => trace[p].arg = total
  /\ \A p \in Events("allowance") :
       trace[p].ok =>
         IF trace[p].arg < total
           THEN IF p = Len(trace) THEN pc = "approve" ELSE trace[p + 1].op = "approve"
           ELSE Events("approve") = {}
  /\ \A q \in Events("estimate") \cup Events("submit") :
       \A p \in Events("approve") :
         \E w \in Events("approveWait") : trace[w].ok /\ p < w /\ w < q

C15_Witness ==
  /\ pc = "done"
  /\ ~isNative
  /\ Len(entryChunks) = 3
  /\ \E p \in Events("approve") : trace[p].ok /\ trace[p].arg = 4
  /\ \A c \in 1..3 : \E p \in Events("submit") : trace[p].arg = c /\ trace[p].ok

\* C16: in native mode, when the balance queried is below the total of the
\* working set the run fails there: no estimate and no submission is issued
\* and no checkpoint write is made.
C16_InsufficientBalanceAborts ==
  /\ \A p \in Events("getBalance") :
       (trace[p].ok /\ trace[p].arg < total) =>
         /\ pc = "failed" /\ error = "insufficient"
         /\ p = Len(trace)
  /\ (pc = "failed" /\ error = "insufficient") =>
       /\ isNative
       /\ \E p \in Events("getBalance") : trace[p].ok /\ trace[p].arg < total
       /\ Events("estimate") \cup Events("submit") \cup Events("write") = {}

C16_Witness ==
  /\ pc = "failed"
  /\ error = "insufficient"
  /\ runs = 2
  /\ fileKeys # {}
  /\ trace[Len(trace)].op = "getBalance"

\* C17: in native mode the value attached to every chunk submission and to
\* every estimate is the sum of the amounts of the entries in that call, and
\* the call passes the contract's checks on its arguments.
C17_NativeValueIsSum ==
  isNative =>
    /\ \A p \in Events("submit") :
         LET k == trace[p].arg
             c == chunkCall(k)
         IN /\ c.recipients = recipientsOf(entryChunks[k])
            /\ c.amounts = amountsOf(entryChunks[k])
            /\ c.value = SumSeq(amountsOf(entryChunks[k]))
            /\ nativeRequires(c)
    /\ \A p \in Events("estimate") :
         LET n == trace[p].arg
             c == estimateCall(n)
         IN /\ c.recipients = SubSeq(recipientsOf(validEntries), 1, n)
            /\ c.amounts = SubSeq(amountsOf(validEntries), 1, n)
            /\ c.value = SumSeq(SubSeq(amountsOf(validEntries), 1, n))
            /\ nativeRequires(c)

C17_Witness ==
  /\ isNative
  /\ pc = "done"
  /\ Len(validEntries) = 3
  /\ chunkSize = 2
  /\ chunkCall(1).value = 3
  /\ chunkCall(2).value = 1
  /\ \E p \in Events("estimate") : trace[p].arg = 2
  /\ \A c \in 1..2 : \E p \in Events("submit") : trace[p].arg = c /\ trace[p].ok

\* C18 (as stated): a call that reverts leaves every balance as it was; a call
\* that succeeds has delivered to every recipient with a non-zero amount
\* exactly the amounts listed for it.
C18_AllOrNothing ==
  /\ cpc = "reverted" => (chain = snapshot /\ got = NoneGot)
  /\ cpc = "success" =>
       \A a \in Accounts \ {"sender"} : got[a] = listed(tx, a)

\* C18 (amended): the same, the exact delivery being claimed for native calls
\* and for tokens whose transferFrom moves the value it is asked to move.
C18_AllOrNothingExactToken ==
  /\ cpc = "reverted" => (chain = snapshot /\ got = NoneGot)
  /\ (cpc = "success" /\ tx.token # "fee") =>
       \A a \in Accounts \ {"sender"} : got[a] = listed(tx, a)

C18_Witness ==
  /\ cpc = "success"
  /\ tx.fn = "erc20"
  /\ tx.token = "standard"
  /\ tx.recipients = <<"A1", "R">>
  /\ tx.amounts = <<1, 1>>
  /\ got["A1"] = 1 /\ got["R"] = 1

\* C19: after a successful batchTransferNative call, recipients that re-enter
\* the contract included, the contract's native balance is what it was before
\* the call.
C19_ContractBalanceKept ==
  (cpc = "success" /\ tx.fn = "native") =>
    chain.bal["self"] = snapshot.bal["self"]

\* C20: with an interval T > 0 the starts of two consecutive remote calls,
\* of one operation's attempts or of two operations, are at least T apart;
\* with the interval zero limitPace inserts no delay.
C20_PacedStarts ==
  /\ (RATE_LIMIT_INTERVAL_MS > 0 /\ Len(starts) = 2) =>
       starts[2] - starts[1] >= RATE_LIMIT_INTERVAL_MS
  /\ RATE_LIMIT_INTERVAL_MS = 0 => (paced = 0 /\ lastCallAt = 0)

C20_Witness ==
  /\ RATE_LIMIT_INTERVAL_MS = MaxInterval
  /\ rpc = "call"
  /\ ops = 2
  /\ invoked = 1
  /\ paced > 0
  /\ Len(starts) = 2
  /\ starts[2] - starts[1] = RATE_LIMIT_INTERVAL_MS

RECURSIVE pow2(_)
pow2(n) == IF n <= 0 THEN 1 ELSE 2 * pow2(n - 1)

\* C21: the wait computed before the k-th retry of a callWithRetry invocation
\* is at least d_k = min(RETRY_BASE_MS * 2^(k-1), RETRY_MAX_MS), at most d_k
\* plus a fifth of d_k, and at most RETRY_MAX_MS.
C21_BackoffWait ==
  rpc = "sleep" =>
    LET d == Min(RETRY_BASE_MS * pow2(attempt - 1), RETRY_MAX_MS) IN
    /\ waitMs >= d
    /\ 5 * (waitMs - d) <= d
    /\ waitMs <= RETRY_MAX_MS

C21_Witness ==
  /\ rpc = "sleep"
  /\ attempt = 2
  /\ RETRY_BASE_MS = MaxBase
  /\ RETRY_MAX_MS = 4 * MaxBase
  /\ waitMs = 2 * MaxBase + 3

\* C22: a checkpoint write that fails after a confirmed chunk does not end
\* the run: the run goes on to the next chunk, or is done after the last one,
\* and no run fails on a checkpoint write.
C22_WriteFailureNotFatal ==
  [][ /\ ( /\ trace' # trace
           /\ trace' # <<>>
           /\ trace'[Len(trace')].op = "write"
           /\ ~trace'[Len(trace')].ok ) =>
           LET k == trace'[Len(trace')].arg IN
           /\ pc' = (IF k >= Len(entryChunks') THEN "done" ELSE "submit")
           /\ error' = "none"
           /\ i' = k + 1
      /\ (pc' = "failed" /\ trace' # <<>>) => trace'[Len(trace')].op # "write"
    ]_vars

C22_Witness ==
  /\ pc = "done"
  /\ Len(entryChunks) = 2
  /\ \E p \in Events("write") : trace[p].arg = 1 /\ ~trace[p].ok
  /\ \E p \in Events("wait") : trace[p].arg = 2 /\ trace[p].ok
  /\ \E p \in Events("write") : trace[p].arg = 2 /\ trace[p].ok

\* the positions of the input's entries with a valid address and an amount
\* above zero
validPositions ==
  {k \in 1..Len(input) :
     isAddress(input[k].address) /\ parseUnits(input[k].amountStr) > 0}

\* the run has been through its validation loop
Validated == pc \notin {"idle", "crashed", "decimals"} /\ error # "duplicate"

\* C23: with checkpoints enabled the working set is, in the input's order,
\* the valid entries whose key is not in the confirmed set loaded; filtering
\* the working set again with the same confirmed set gives the working set;
\* an entry whose address is confirmed with another amount is kept.
C23_ResumptionFilter ==
  (Validated /\ ~DISABLE_CHECKPOINTS) =>
    LET keep == {k \in validPositions :
                   makeKey(input[k].address, input[k].amountStr) \notin loadedKeys}
        nth(j) == CHOOSE k \in keep : Cardinality({m \in keep : m < k}) = j - 1
    IN /\ Len(validEntries) = Cardinality(keep)
       /\ \A j \in 1..Len(validEntries) :
            /\ validEntries[j].address = input[nth(j)].address
            /\ validEntries[j].amountStr = input[nth(j)].amountStr
       /\ validate(validEntries, FALSE, loadedKeys) = validEntries
       /\ \A k \in validPositions :
            ( /\ \E key \in loadedKeys :
                   key[1] = input[k].address /\ key[2] # input[k].amountStr
              /\ makeKey(input[k].address, input[k].amountStr) \notin loadedKeys )
            => \E j \in 1..Len(validEntries) :
                 /\ validEntries[j].address = input[k].address
                 /\ validEntries[j].amountStr = input[k].amountStr

C23_Witness ==
  /\ Validated
  /\ ~DISABLE_CHECKPOINTS
  /\ Len(input) = 3
  /\ loadedKeys = {makeKey("a1", "2"), makeKey("a2", "2")}
  /\ Len(validEntries) = 2
  /\ validEntries[1].address = "a1" /\ validEntries[1].amountStr = "1"
  /\ validEntries[2].address = "a3"

\* C24: in a run with checkpoints disabled no step reads or writes the
\* checkpoint file, and the working set is every valid entry of the input, in
\* order, whatever keys the file holds.
C24_DisabledIgnoresFile ==
  [][ DISABLE_CHECKPOINTS' =>
        /\ fileExists' = fileExists
        /\ fileKeys' = fileKeys
        /\ \A p \in 1..Len(trace') : trace'[p].op \notin {"read", "write"}
        /\ (pc' \notin {"idle", "crashed", "decimals"} /\ error' # "duplicate") =>
             LET nth(j) == CHOOSE k \in validPositions :
                             Cardinality({m \in validPositions : m < k}) = j - 1
             IN /\ Len(validEntries') = Cardinality(validPositions)
                /\ \A j \in 1..Len(validEntries') :
                     /\ validEntries'[j].address = input[nth(j)].address
                     /\ validEntries'[j].amountStr = input[nth(j)].amountStr
    ]_vars

C24_Witness ==
  /\ DISABLE_CHECKPOINTS
  /\ pc = "done"
  /\ runs = 2
  /\ fileExists
  /\ Len(validEntries) = 2
  /\ keysOf(validEntries) = fileKeys

\* the events of one kind the run has logged, in order
eventsOf(op) == SelectSeq(trace, LAMBDA e : e.op = op)

\* every chunk of the working set was submitted and confirmed once, in order
EachChunkOnceInOrder ==
  /\ Flatten(entryChunks) = validEntries
  /\ eventsOf("submit") = [k \in 1..Len(entryChunks) |-> Ev("submit", k, TRUE)]
  /\ eventsOf("wait") = [k \in 1..Len(entryChunks) |-> Ev("wait", k, TRUE)]

\* C25 (as stated): a run with a working set whose remote calls all succeed
\* ends done, having submitted and confirmed every entry once, in order, with
\* the checkpoint file holding the key of every entry of the working set.
C25_AllOkRunCompletes ==
  /\ (pc \in Running \ {"decimals"}) ~> (pc = "done")
  /\ [](pc = "done" =>
          /\ EachChunkOnceInOrder
          /\ keysOf(validEntries) \subseteq fileKeys)

\* C25 (amended): such a run ends done when, in native mode, the balance
\* covers the total; a done run has submitted and confirmed every entry once,
\* in order; with checkpoints enabled its in-memory set holds every key, and
\* the file holds them when the last checkpoint write succeeded.
C25_AllOkRunCompletesFunded ==
  /\ (pc \in Running \ {"decimals"} /\ (isNative => balance >= total))
       ~> (pc = "done")
  /\ [](pc = "done" =>
          /\ EachChunkOnceInOrder
          /\ ~DISABLE_CHECKPOINTS => keysOf(validEntries) \subseteq sentKeys
          /\ (~DISABLE_CHECKPOINTS /\ trace[Len(trace)] = Ev("write", Len(entryChunks), TRUE))
               => keysOf(validEntries) \subseteq fileKeys)

C25_Witness ==
  /\ pc = "done"
  /\ isNative
  /\ ~DISABLE_CHECKPOINTS
  /\ Len(entryChunks) = 3
  /\ balance = MaxFunds - total
  /\ trace[Len(trace)] = Ev("write", 3, TRUE)
  /\ keysOf(validEntries) = fileKeys

RECURSIVE log2floor(_)
\* floor(log2(n)) for n >= 1
log2floor(n) == IF n <= 1 THEN 0 ELSE 1 + log2floor(n \div 2)

\* C26: for every working-set size and every pattern of estimates the search
\* ends, having issued at most 2*floor(log2(H)) + 1 estimates, H = min(N, 512),
\* each for a prefix length in 1..H and no prefix length twice.
C26_SearchCost ==
  pResult # NoResult =>
    LET calls == pResult.calls
        H == Min(pN, ProbeCap)
    IN /\ Len(calls) >= 1
       /\ Len(calls) <= 2 * log2floor(H) + 1
       /\ \A p \in 1..Len(calls) : calls[p] \in 1..H
       /\ \A p, q \in 1..Len(calls) : p # q => calls[p] # calls[q]

C26_Witness ==
  /\ pResult # NoResult
  /\ pN = 7
  /\ pResult.calls = <<1, 2, 4, 5, 6>>
  /\ pResult.chunkSize = 6

\* C27: given the same working set, budget and estimates, the front-end's
\* estimateChunkSize asks for the same prefix lengths in the same order as the
\* script's search and returns the same chunk size.
C27_SameSearch ==
  (pResult # NoResult /\ pFront # NoResult) =>
    /\ pFront.calls = pResult.calls
    /\ pFront.chunkSize = pResult.chunkSize

C27_Witness ==
  /\ pN = 6
  /\ pResult # NoResult
  /\ pFront = pResult
  /\ pFront.calls = <<1, 2, 4, 5>>
  /\ pFront.chunkSize = 4

\* C28: the already-sent count a run reports is the number of input entries
\* the resumption filter removed because their key was in the confirmed set.
C28_AlreadySentCount ==
  (Validated /\ validEntries # <<>>) =>
    alreadySentSkipped =
      Cardinality({k \in validPositions :
                     /\ ~DISABLE_CHECKPOINTS
                     /\ makeKey(input[k].address, input[k].amountStr) \in loadedKeys})

\* the amounts of the entries of chunks k and later
remainingFrom(k) ==
  SumSeq(amountsOf(Flatten(SubSeq(entryChunks, k, Len(entryChunks)))))

\* C29: in token mode, when a chunk is about to be submitted or is awaiting
\* its confirmation, the allowance of the batch contract is at least the sum
\* of the amounts of the entries the run has not confirmed yet, so that the
\* contract's allowance requirement holds for the chunk.
C29_AllowanceCoversRemaining ==
  (~isNative /\ pc \in {"submit", "wait"}) =>
    /\ allowance >= remainingFrom(i)
    /\ allowance >= SumSeq(chunkCall(i).amounts)

C29_Witness ==
  /\ ~isNative
  /\ pc = "submit"
  /\ i = 2
  /\ Len(entryChunks) = 3
  /\ Events("approve") # {}
  /\ allowance = remainingFrom(2)
  /\ allowance < total

\* C30: in one run at most one submission call per chunk returns a
\* transaction; a submission that failed after its retries ends the run; a
\* chunk is never submitted after a confirmation wait for it, failed or not,
\* and a failed wait ends the run.
C30_OneSubmissionPerChunk ==
  /\ \A p, q \in Events("submit") :
       (trace[p].arg = trace[q].arg /\ trace[p].ok /\ trace[q].ok) => p = q
  /\ \A p \in Events("submit") : \A q \in Events("wait") :
       trace[q].arg = trace[p].arg => p < q
  /\ \A p \in Events("submit") \cup Events("wait") :
       ~trace[p].ok => (p = Len(trace) /\ pc = "failed" /\ error = "chunk")
  /\ pc \in {"wait", "mined"} => trace[Len(trace)] = Ev("submit", i, TRUE)

C30_Witness ==
  /\ pc = "failed"
  /\ error = "chunk"
  /\ trace[Len(trace)] = Ev("wait", 2, FALSE)
  /\ Cardinality(Events("submit")) = 2
  /\ \E a \in Canonical : paid[a] = 1 /\ a \in {getAddress(e.address) : e \in
        {entryChunks[2][k] : k \in 1..Len(entryChunks[2])}}

\* C31: when the checkpoint write for a chunk failed and the write for a later
\* chunk of the same run succeeded, the file holds the keys of the earlier
\* chunk too.
C31_LaterWriteRecovers ==
  \A q, p \in Events("write") :
    (q < p /\ ~trace[q].ok /\ trace[p].ok) =>
      /\ trace[q].arg < trace[p].arg
      /\ keysOf(entryChunks[trace[q].arg]) \subseteq fileKeys

C31_Witness ==
  /\ Len(entryChunks) = 3
  /\ trace # <<>>
  /\ trace[Len(trace)] = Ev("write", 3, TRUE)
  /\ \A k \in 1..2 : \E q \in Events("write") : trace[q].arg = k /\ ~trace[q].ok
  /\ fileKeys = keysOf(validEntries)

\* both runs have ended
BothFinished == \A p \in Procs : procs[p].pc \in {"done", "failed"}

FrontEstimatesAuthorized ==
  /\ \A q \in UiEvents("estimate") :
       \/ \E p \in UiEvents("allowance") :
            p < q /\ uiTrace[p].ok /\ uiTrace[p].arg >= totalWei
       \/ \E w \in UiEvents("approveWait") : w < q /\ uiTrace[w].ok
  /\ uiPc = "estimate" => allowance >= totalWei

\* C33: in token mode every cost estimate comes after the authorization step
\* has completed (the allowance queried was sufficient, or the approve was
\* confirmed), and the search runs with an allowance of at least the total of
\* the working set; in the script and in the front-end's onSend.
C33_EstimatesAfterAuthorization ==
  /\ ~isNative =>
       /\ \A q \in Events("estimate") :
            \/ \E p \in Events("allowance") :
                 p < q /\ trace[p].ok /\ trace[p].arg >= total
            \/ \E w \in Events("approveWait") : w < q /\ trace[w].ok
       /\ pc \in {"getBlock", "probe"} => allowance >= total
  /\ FrontEstimatesAuthorized

C33_Witness ==
  /\ ~isNative
  /\ pc = "submit"
  /\ i = 1
  /\ Cardinality(Events("estimate")) >= 2
  /\ Events("approveWait") # {}
  /\ allowance = total

====
